---- MODULE Spec2Model ----
(***************************************************************************)
(* CryptoIndicatorTracker: the strategy backtest page                      *)
(* (pages/06_ScaleSignals_Backtest.py: signals, positions, metrics, its    *)
(* Pi Cycle condition, halving windows and MAG7 benchmark), the Pi Cycle   *)
(* detector (utils/pi_cycle.py), the halving tracker                       *)
(* (utils/halving_tracker.py), the dashboard overview and its update       *)
(* button (app.py), the composite index (utils/mag7_btc.py), the refresh   *)
(* and the reader of the latest rows (data_manager.py), the scheduler      *)
(* (scheduler.py) and the CBBI scraper (utils/cbbi.py).                    *)
(*                                                                         *)
(* Python indices are 0-based; a column is a TLA+ sequence, so row k of a  *)
(* DataFrame is element k+1 of its column.                                 *)
(***************************************************************************)
EXTENDS Integers, Sequences, FiniteSets, TLC

VARIABLES
    \* ---- backtest loop and metrics (06_ScaleSignals_Backtest.py 125-171)
    bt_pc,        \* position of the script: "loop", "returns", "metrics", "done"
    bt,           \* the bt DataFrame, one sequence per column
    in_pos,       \* the loop's in_pos flag
    i,            \* the loop's index i
    metrics,      \* total_ret, bh_ret, sr and the rendered Sharpe text
    \* ---- data loading and signals (06_ScaleSignals_Backtest.py 16-123)
    sig_pc,       \* "load", "indicators", "compose", "done", "stopped"
    params,       \* strict_entry, strict_exit, pctl_in
    fetched,      \* what the providers returned
    cbbi,         \* the cbbi frame after lines 42-43
    rank,         \* the rank frame after lines 44-45
    df,           \* the df DataFrame, one sequence per column
    st_error,     \* the input st.error names, "" when none
    \* ---- get_pi_cycle_data (utils/pi_cycle.py)
    pi_pc,        \* "fetch", "mas", "crossovers", "response", "done"
    btc_data,     \* the btc_data DataFrame, one sequence per column
    response,     \* the returned dictionary's crossovers, dates and latest values
    pi_close,     \* the BTC-USD closes the download returned
    pitop,        \* the backtest page's pitop column over the same closes
    \* ---- get_halving_data (utils/halving_tracker.py)
    hv_pc,        \* "now", "scan", "position", "done"
    current_date, \* datetime.now(): a day number and the second of the day
    last_halving, \* the scan's result: <<>> for None, else <<date string>>
    response_data, \* the returned value: <<>> for None, else <<dictionary>>
    \* ---- Dashboard Overview (app.py 59-335)
    ds_pc,        \* "load", "display", "collect", "count", "summary", "done"
    data,         \* get_latest_data(): per indicator <<>> for None, else <<dictionary>>
    shown,        \* the status displayed per indicator, "" when its data is missing
    indicators,   \* the list of statuses the tally collects
    counts,       \* bullish_count, neutral_count, bearish_count
    summary,      \* the market summary shown: "error", "warning", "success", "info"
    \* ---- get_mag7_btc_data (utils/mag7_btc.py)
    mg_pc,        \* "fetch", "align", "index", "done"
    mg_data,      \* the data DataFrame: dates and one column per ticker
    index_data,   \* the BTC_Mag7_Index column
    mg_response,  \* the returned value: <<>> for None
    \* ---- update_database (data_manager.py 80-141)
    ud_pc,        \* "begin", "update", "returned"
    db,           \* the committed rows of each table
    db_at_begin,  \* the committed rows when the running call began
    tx,           \* the rows the call's connection has inserted, not committed
    ud_cycle,     \* the number of calls begun
    ud_payload,   \* what the fetchers return during the call
    ud_date,      \* current_date of the call
    ud_k,         \* the update the call is at, 1..5
    ud_outcome,   \* per table: "pending", "none", "stored", "raised"
    ud_result,    \* the returned value: "True", "False", "none" while running
    ud_trigger,   \* who called: "button" (app.py 53-55) or "job" (scheduler.py)
    sidebar,      \* the message the sidebar shows after the button's call
    \* ---- get_latest_data (data_manager.py 192-274) next to update_database
    rd_pc,        \* "ready", "select", "returned"
    rd_k,         \* the SELECT the call is at, 1..5
    rd_data,      \* the data dictionary: per table <<>> until its entry is set
    rd_pending,   \* the tables whose SELECT ran over an uncommitted insert
    \* ---- the halving windows (06_ScaleSignals_Backtest.py 67-82)
    hw_pc,        \* "index", "windows", "done"
    hw_day,       \* the date of a row of df.index, as a day number
    hin,          \* hin on that row
    hout,         \* hout on that row
    \* ---- the benchmark (06_ScaleSignals_Backtest.py 31-36)
    bm_pc,        \* "download", "index", "done"
    mag7_prices,  \* the mag7_prices frame: one column per equity
    mag7_idx,     \* the MAG7_EQW column
    \* ---- the scheduler and the refresh triggers (scheduler.py, app.py 24-56)
    sc_pc,        \* "loaded" once the application has been loaded
    sc_running,   \* scheduler.running
    sc_jobs,      \* the ids of the jobs the scheduler holds
    sc_active,    \* per trigger: a refresh it started is running
    sc_runs,      \* per trigger: the refreshes it has started
    sc_starts,    \* start_scheduler calls since the scheduler last stopped
    sc_stops,     \* stop_scheduler calls
    \* ---- scrape_official_cbbi_score (utils/cbbi.py 133-217) and its job
    cb_pc,        \* "html", "api", "returned", "done"
    cb_html,      \* the response to the request for the page
    cb_api,       \* the response to the request for the JSON API
    cb_score,     \* the returned value: <<>> for None, else <<score>>
    cb_stored     \* the score the job wrote to daily_cbbi_scores, <<>> when none

btVars == <<bt_pc, bt, in_pos, i, metrics>>
sigVars == <<sig_pc, params, fetched, cbbi, rank, df, st_error>>
piVars == <<pi_pc, btc_data, response, pi_close, pitop>>
hvVars == <<hv_pc, current_date, last_halving, response_data>>
dsVars == <<ds_pc, data, shown, indicators, counts, summary>>
mgVars == <<mg_pc, mg_data, index_data, mg_response>>
udVars ==
    <<ud_pc, db, db_at_begin, tx, ud_cycle, ud_payload, ud_date, ud_k, ud_outcome,
      ud_result, ud_trigger, sidebar>>
rdVars == <<rd_pc, rd_k, rd_data, rd_pending>>
hwVars == <<hw_pc, hw_day, hin, hout>>
bmVars == <<bm_pc, mag7_prices, mag7_idx>>
scVars == <<sc_pc, sc_running, sc_jobs, sc_active, sc_runs, sc_starts, sc_stops>>
cbVars == <<cb_pc, cb_html, cb_api, cb_score, cb_stored>>
vars == <<btVars, sigVars, piVars, hvVars, dsVars, mgVars, udVars, rdVars, hwVars, bmVars,
      scVars, cbVars>>

\* the variables each part of the program leaves alone
btOthers == <<sigVars, piVars, hvVars, dsVars, mgVars, udVars, rdVars, hwVars, bmVars, scVars,
      cbVars>>
sigOthers == <<btVars, piVars, hvVars, dsVars, mgVars, udVars, rdVars, hwVars, bmVars, scVars,
      cbVars>>
piOthers == <<btVars, sigVars, hvVars, dsVars, mgVars, udVars, rdVars, hwVars, bmVars, scVars,
      cbVars>>
hvOthers == <<btVars, sigVars, piVars, dsVars, mgVars, udVars, rdVars, hwVars, bmVars, scVars,
      cbVars>>
dsOthers == <<btVars, sigVars, piVars, hvVars, mgVars, udVars, rdVars, hwVars, bmVars, scVars,
      cbVars>>
mgOthers == <<btVars, sigVars, piVars, hvVars, dsVars, udVars, rdVars, hwVars, bmVars, scVars,
      cbVars>>
udOthers == <<btVars, sigVars, piVars, hvVars, dsVars, mgVars, rdVars, hwVars, bmVars, scVars,
      cbVars>>
rdOthers == <<btVars, sigVars, piVars, hvVars, dsVars, mgVars, udVars, hwVars, bmVars, scVars,
      cbVars>>
hwOthers == <<btVars, sigVars, piVars, hvVars, dsVars, mgVars, udVars, rdVars, bmVars, scVars,
      cbVars>>
bmOthers == <<btVars, sigVars, piVars, hvVars, dsVars, mgVars, udVars, rdVars, hwVars, scVars,
      cbVars>>
scOthers == <<btVars, sigVars, piVars, hvVars, dsVars, mgVars, udVars, rdVars, hwVars, bmVars,
      cbVars>>
cbOthers == <<btVars, sigVars, piVars, hvVars, dsVars, mgVars, udVars, rdVars, hwVars, bmVars,
      scVars>>

(***************************************************************************)
(* Floats.  A float is NaN or an exact rational n/d (d > 0, lowest terms): *)
(* the model keeps pandas' NaN propagation and leaves rounding out.        *)
(***************************************************************************)
NaN == [nan |-> TRUE, n |-> 0, d |-> 1]

Abs(x) == IF x < 0 THEN -x ELSE x

\* the least and the greatest element of a set of integers
SetMin(S) == CHOOSE x \in S : \A y \in S : x <= y
SetMax(S) == CHOOSE x \in S : \A y \in S : x >= y

RECURSIVE GCD(_, _)
GCD(a, b) == IF b = 0 THEN a ELSE GCD(b, a % b)

Rat(n, d) ==
    LET s == IF d < 0 THEN -1 ELSE 1
        g == GCD(Abs(n), Abs(d))
    IN  [nan |-> FALSE, n |-> (s * n) \div g, d |-> (s * d) \div g]

FromInt(k) == [nan |-> FALSE, n |-> k, d |-> 1]

IsNaN(x) == x.nan

FAdd(x, y) == IF x.nan \/ y.nan THEN NaN ELSE Rat(x.n * y.d + y.n * x.d, x.d * y.d)
FSub(x, y) == IF x.nan \/ y.nan THEN NaN ELSE Rat(x.n * y.d - y.n * x.d, x.d * y.d)
FMul(x, y) == IF x.nan \/ y.nan THEN NaN ELSE Rat(x.n * y.n, x.d * y.d)
\* x / y; a zero divisor gives NaN here (numpy gives inf or NaN and no exception)
FDiv(x, y) == IF x.nan \/ y.nan \/ y.n = 0 THEN NaN ELSE Rat(x.n * y.d, x.d * y.n)

\* comparisons with NaN are False, as in numpy
FLt(x, y) == ~x.nan /\ ~y.nan /\ x.n * y.d < y.n * x.d
FLe(x, y) == ~x.nan /\ ~y.nan /\ x.n * y.d <= y.n * x.d
FGt(x, y) == FLt(y, x)
FGe(x, y) == FLe(y, x)

\* Series.fillna(v)
FillNa(x, v) == IF x.nan THEN v ELSE x

\* Series.shift(1) of a numeric column: the first row becomes NaN
Shift1(col) == [k \in 1..Len(col) |-> IF k = 1 THEN NaN ELSE col[k - 1]]

\* Series.pct_change(): NaN on the first row, then col[t] / col[t-1] - 1
PctChange(col) ==
    [k \in 1..Len(col) |->
        IF k = 1 THEN NaN
        ELSE FSub(FDiv(FromInt(col[k]), FromInt(col[k - 1])), FromInt(1))]

\* Series.cumprod()
RECURSIVE CumProdTo(_, _)
CumProdTo(col, k) == IF k = 1 THEN col[1] ELSE FMul(CumProdTo(col, k - 1), col[k])
CumProd(col) == [k \in 1..Len(col) |-> CumProdTo(col, k)]

\* the non-NaN values of a column, in order
RECURSIVE DropNa(_)
DropNa(col) ==
    IF col = <<>> THEN <<>>
    ELSE IF Head(col).nan THEN DropNa(Tail(col))
    ELSE <<Head(col)>> \o DropNa(Tail(col))

RECURSIVE FSum(_)
FSum(col) == IF col = <<>> THEN FromInt(0) ELSE FAdd(Head(col), FSum(Tail(col)))

\* Series.mean(): NaN rows skipped, NaN when nothing is left
Mean(col) ==
    LET v == DropNa(col)
    IN  IF Len(v) = 0 THEN NaN ELSE FDiv(FSum(v), FromInt(Len(v)))

\* The square of Series.std() (ddof = 1, NaN rows skipped): NaN with fewer
\* than two values.  std() is its square root, so std() > 0 iff this is > 0.
StdSquared(col) ==
    LET v == DropNa(col)
        m == Mean(col)
        dev == [k \in 1..Len(v) |-> FMul(FSub(v[k], m), FSub(v[k], m))]
    IN  IF Len(v) < 2 THEN NaN ELSE FDiv(FSum(dev), FromInt(Len(v) - 1))

(***************************************************************************)
(* Bounds of the backtest model.                                           *)
(***************************************************************************)
BtDays == 4        \* rows of bt
BtPrices == {1, 2} \* the BTC closes a row may hold

BoolCols(n) == [1..n -> BOOLEAN]
PriceCols(n) == [1..n -> BtPrices]

(***************************************************************************)
(* The position loop, lines 127-141.                                       *)
(***************************************************************************)
\* variant of the code: the signals of day t itself decide the position of day t
LoopBodySameDay(pos, inp, entry, exit, k) ==
    IF ~inp /\ entry[k + 1]
    THEN [Position |-> [pos EXCEPT ![k + 1] = 1], in_pos |-> TRUE]
    ELSE IF inp /\ exit[k + 1]
    THEN [Position |-> [pos EXCEPT ![k + 1] = 0], in_pos |-> FALSE]
    ELSE [Position |-> [pos EXCEPT ![k + 1] = pos[k]], in_pos |-> inp]

\* variant of the code: the hold branch leaves the row at its initial 0
LoopBodyNoHold(pos, inp, entry, exit, k) ==
    IF ~inp /\ entry[k]
    THEN [Position |-> [pos EXCEPT ![k + 1] = 1], in_pos |-> TRUE]
    ELSE IF inp /\ exit[k]
    THEN [Position |-> [pos EXCEPT ![k + 1] = 0], in_pos |-> FALSE]
    ELSE [Position |-> pos, in_pos |-> inp]

\* One iteration of `for i in range(1, len(bt))` with i = k: y is row k-1
\* (element k), t is row k (element k+1).
LoopBody(pos, inp, entry, exit, k) ==
    IF ~inp /\ entry[k]
    THEN [Position |-> [pos EXCEPT ![k + 1] = 1], in_pos |-> TRUE]
    ELSE IF inp /\ exit[k]
    THEN [Position |-> [pos EXCEPT ![k + 1] = 0], in_pos |-> FALSE]
    ELSE [Position |-> [pos EXCEPT ![k + 1] = pos[k]], in_pos |-> inp]

\* bt["Position"] = 0; in_pos = False
LoopStart(n) == [Position |-> [k \in 1..n |-> 0], in_pos |-> FALSE]

\* the whole loop, iterations 1..k, on given signal columns
RECURSIVE RunLoop(_, _, _)
RunLoop(entry, exit, k) ==
    IF k = 0 THEN LoopStart(Len(entry))
    ELSE LET s == RunLoop(entry, exit, k - 1)
         IN  LoopBody(s.Position, s.in_pos, entry, exit, k)

(***************************************************************************)
(* Returns and equity, lines 143-146.                                      *)
(***************************************************************************)
\* variant of the code: the position of the same row, without shift(1)
StratRetColNoShift(ret, pos) ==
    [k \in 1..Len(ret) |-> FMul(ret[k], FromInt(pos[k]))]

\* bt["StratRet"] = bt["Ret"] * bt["Position"].shift(1)
StratRetCol(ret, pos) ==
    LET sh == Shift1([k \in 1..Len(pos) |-> FromInt(pos[k])])
    IN  [k \in 1..Len(ret) |-> FMul(ret[k], sh[k])]

\* variant of the code: the undefined first return is filled with 1
EquityColFillOne(r) ==
    CumProd([k \in 1..Len(r) |-> FAdd(FromInt(1), FillNa(r[k], FromInt(1)))])

\* (1 + r.fillna(0)).cumprod()
EquityCol(r) ==
    CumProd([k \in 1..Len(r) |-> FAdd(FromInt(1), FillNa(r[k], FromInt(0)))])

(***************************************************************************)
(* Metrics, lines 153-171.                                                 *)
(***************************************************************************)
\* variant of the code: >= in place of >
SharpeNonStrict(stratret) ==
    IF FGe(StdSquared(stratret), FromInt(0))
    THEN [nan |-> FALSE, mean |-> Mean(stratret), std2 |-> StdSquared(stratret)]
    ELSE [nan |-> TRUE, mean |-> NaN, std2 |-> NaN]

\* sr = mean / std * sqrt(252) if std > 0 else nan.  The number is kept as
\* the pair (mean, std squared) it is computed from.
Sharpe(stratret) ==
    IF FGt(StdSquared(stratret), FromInt(0))
    THEN [nan |-> FALSE, mean |-> Mean(stratret), std2 |-> StdSquared(stratret)]
    ELSE [nan |-> TRUE, mean |-> NaN, std2 |-> NaN]

\* f"{sr:.2f}" if not np.isnan(sr) else "N/A"
SharpeText(s) == IF ~s.nan THEN "number" ELSE "N/A"

NoMetrics ==
    [total_ret |-> NaN, bh_ret |-> NaN,
     sr |-> [nan |-> TRUE, mean |-> NaN, std2 |-> NaN], sharpe_text |-> ""]

(***************************************************************************)
(* A part of the program that is not running holds these values.           *)
(***************************************************************************)
BtIdle ==
    /\ bt_pc = "idle"
    /\ bt = [BTC |-> <<>>, EntrySignal |-> <<>>, ExitSignal |-> <<>>,
             Position |-> <<>>, Ret |-> <<>>, StratRet |-> <<>>,
             Equity |-> <<>>, BH_Equity |-> <<>>]
    /\ in_pos = FALSE
    /\ i = 1
    /\ metrics = NoMetrics

SigIdle ==
    /\ sig_pc = "idle"
    /\ params = [strict_entry |-> TRUE, strict_exit |-> TRUE, pctl_in |-> NaN]
    /\ fetched = <<>>
    /\ cbbi = <<>>
    /\ rank = <<>>
    /\ df = <<>>
    /\ st_error = ""

PiIdle ==
    /\ pi_pc = "idle"
    /\ btc_data = <<>>
    /\ response = <<>>
    /\ pi_close = <<>>
    /\ pitop = <<>>

HvIdle ==
    /\ hv_pc = "idle"
    /\ current_date = [day |-> 0, sec |-> 0]
    /\ last_halving = <<>>
    /\ response_data = <<>>

DsIdle ==
    /\ ds_pc = "idle"
    /\ data = <<>>
    /\ shown = <<>>
    /\ indicators = <<>>
    /\ counts = [bullish |-> 0, neutral |-> 0, bearish |-> 0]
    /\ summary = ""

\* get_mag7_btc_data, line 37
tickers == <<"BTC-USD", "MSFT", "AAPL", "GOOGL", "AMZN", "META", "TSLA", "NVDA">>
TickerSet == {tickers[k] : k \in 1..Len(tickers)}

MgNoFrame == [dates |-> <<>>, cols |-> [t \in TickerSet |-> <<>>]]

MgIdle ==
    /\ mg_pc = "idle"
    /\ mg_data = MgNoFrame
    /\ index_data = <<>>
    /\ mg_response = <<>>

(***************************************************************************)
(* update_database, data_manager.py.                                       *)
(*                                                                         *)
(* A table is the sequence of its committed rows (id, date, data).  The    *)
(* rows a connection has inserted and not committed are kept apart: other  *)
(* connections do not see them, and they are lost when the connection goes *)
(* away without a commit.                                                  *)
(***************************************************************************)
\* lines 95-133, in the order of the updates
Tables == <<"mag7_btc", "pi_cycle", "coinbase_rank", "cbbi", "halving">>
TableSet == {Tables[k] : k \in 1..Len(Tables)}

UdCycles == 2      \* update_database calls in a behaviour

\* app.py 53-55 and scheduler.py 43, 50, 72
UdCallers == {"button", "job"}

\* what the five fetchers return during a call: the first call's payload
\* is payload 1, a later call fetches the same values or other ones
UdPayloads == {1, 2}

udUi == <<ud_payload, ud_trigger, sidebar>>

NoRows == [t \in TableSet |-> <<>>]
NoOutcome == [t \in TableSet |-> "pending"]

\* id INTEGER PRIMARY KEY: one more than the largest id of the table
NextId(rows) == IF rows = <<>> THEN 1 ELSE SetMax({rows[k].id : k \in 1..Len(rows)}) + 1

\* INSERT OR REPLACE INTO t (date, data): the only key is id, which is
\* not given, so a row is added
InsertOrReplace(committed, pending, date, payload) ==
    Append(pending, [id |-> NextId(committed \o pending), date |-> date, data |-> payload])

\* SELECT data FROM t ORDER BY id DESC LIMIT 1: <<>> when the table is empty
LatestRow(rows) ==
    IF rows = <<>> THEN <<>>
    ELSE <<CHOOSE r \in {rows[k] : k \in 1..Len(rows)} :
              \A k \in 1..Len(rows) : rows[k].id <= r.id>>

\* the database before the first call: no rows yet, or one earlier row per table
UdInitialDbs ==
    {NoRows, [t \in TableSet |-> <<[id |-> 1, date |-> 0, data |-> 0]>>]}

UdIdle ==
    /\ ud_pc = "idle"
    /\ db = NoRows
    /\ db_at_begin = NoRows
    /\ tx = NoRows
    /\ ud_cycle = 0
    /\ ud_payload = 0
    /\ ud_date = 0
    /\ ud_k = 1
    /\ ud_outcome = NoOutcome
    /\ ud_result = "none"
    /\ ud_trigger = "none"
    /\ sidebar = ""

(***************************************************************************)
(* get_latest_data, data_manager.py: a reader of the tables, on its own    *)
(* connection, while update_database may be running.                       *)
(***************************************************************************)
RdCycles == 1      \* update_database calls next to a get_latest_data call

NoData == [t \in TableSet |-> <<>>]

RdIdle ==
    /\ rd_pc = "idle"
    /\ rd_k = 1
    /\ rd_data = NoData
    /\ rd_pending = {}

(***************************************************************************)
(* The scheduler, scheduler.py, and the triggers of update_database.       *)
(*                                                                         *)
(* A refresh is started by the initial update of start_scheduler (in the   *)
(* caller's thread), by either scheduler job (in the scheduler's worker    *)
(* threads; a job is not started again while its previous run is going     *)
(* on) and by the 'Update All Data' button (in a session's script thread). *)
(***************************************************************************)
Triggers == {"initial", "cron", "interval", "manual"}

ScMaxRuns == 2     \* refreshes each trigger starts in a behaviour
ScMaxStarts == 3   \* start_scheduler calls while the scheduler runs
ScMaxStops == 2    \* stop_scheduler calls in a behaviour

\* the ids of the two jobs, lines 33 and 43
JobIds == {"update_database_job", "backup_update_database_job"}

ScIdle ==
    /\ sc_running = FALSE
    /\ sc_jobs = {}
    /\ sc_active = [s \in Triggers |-> FALSE]
    /\ sc_runs = [s \in Triggers |-> 0]
    /\ sc_starts = 0
    /\ sc_stops = 0
    /\ sc_pc = "idle"

(***************************************************************************)
(* scrape_official_cbbi_score, utils/cbbi.py, and the job that stores its  *)
(* result, scheduled_update_cbbi_score, scheduler.py.                      *)
(***************************************************************************)
CbNoResponse == [raises |-> FALSE, status |-> 0, body |-> "none", text |-> <<>>, scores |-> <<>>]

CbIdle ==
    /\ cb_pc = "idle"
    /\ cb_html = CbNoResponse
    /\ cb_api = CbNoResponse
    /\ cb_score = <<>>
    /\ cb_stored = <<>>

HwIdle ==
    /\ hw_pc = "idle"
    /\ hw_day = 0
    /\ hin = FALSE
    /\ hout = FALSE

\* 06_ScaleSignals_Backtest.py line 31
MAG7 == <<"AAPL", "MSFT", "GOOGL", "AMZN", "META", "NVDA", "TSLA">>
Mag7Set == {MAG7[k] : k \in 1..Len(MAG7)}

BmIdle ==
    /\ bm_pc = "idle"
    /\ mag7_prices = [t \in Mag7Set |-> <<>>]
    /\ mag7_idx = <<>>

\* every part of the program but one has not started
IdleExcept(part) ==
    /\ part # "bt" => BtIdle
    /\ part # "sig" => SigIdle
    /\ part # "pi" => PiIdle
    /\ part # "hv" => HvIdle
    /\ part # "ds" => DsIdle
    /\ part # "mg" => MgIdle
    /\ (part # "ud" /\ part # "rd") => UdIdle
    /\ part # "rd" => RdIdle
    /\ part # "hw" => HwIdle
    /\ part # "bm" => BmIdle
    /\ part # "sc" => ScIdle
    /\ part # "cb" => CbIdle

(***************************************************************************)
(* The backtest as a state machine.                                        *)
(***************************************************************************)
\* bt = df[["BTC","EntrySignal","ExitSignal"]].copy(); Position = 0; in_pos = False
BtInit ==
    /\ bt_pc = "loop"
    /\ \E n \in 1..BtDays :
       \E p \in PriceCols(n), e \in BoolCols(n), x \in BoolCols(n) :
          bt = [BTC |-> p, EntrySignal |-> e, ExitSignal |-> x,
                Position |-> LoopStart(n).Position,
                Ret |-> <<>>, StratRet |-> <<>>, Equity |-> <<>>, BH_Equity |-> <<>>]
    /\ in_pos = FALSE
    /\ i = 1
    /\ metrics = NoMetrics
    /\ IdleExcept("bt")

\* one iteration of the for loop
LoopStep ==
    /\ bt_pc = "loop"
    /\ i < Len(bt.BTC)
    /\ LET s == LoopBody(bt.Position, in_pos, bt.EntrySignal, bt.ExitSignal, i)
       IN  /\ bt' = [bt EXCEPT !.Position = s.Position]
           /\ in_pos' = s.in_pos
    /\ i' = i + 1
    /\ UNCHANGED <<bt_pc, metrics, btOthers>>

\* range(1, len(bt)) is exhausted
LoopExit ==
    /\ bt_pc = "loop"
    /\ i >= Len(bt.BTC)
    /\ bt_pc' = "returns"
    /\ UNCHANGED <<bt, in_pos, i, metrics, btOthers>>

\* lines 143-146
ComputeReturns ==
    /\ bt_pc = "returns"
    /\ LET ret == PctChange(bt.BTC)
           sret == StratRetCol(ret, bt.Position)
       IN  bt' = [bt EXCEPT !.Ret = ret, !.StratRet = sret,
                            !.Equity = EquityCol(sret), !.BH_Equity = EquityCol(ret)]
    /\ bt_pc' = "metrics"
    /\ UNCHANGED <<in_pos, i, metrics, btOthers>>

\* lines 153-171
ComputeMetrics ==
    /\ bt_pc = "metrics"
    /\ LET s == Sharpe(bt.StratRet)
       IN  metrics' = [total_ret |-> FSub(bt.Equity[Len(bt.Equity)], FromInt(1)),
                       bh_ret |-> FSub(bt.BH_Equity[Len(bt.BH_Equity)], FromInt(1)),
                       sr |-> s, sharpe_text |-> SharpeText(s)]
    /\ bt_pc' = "done"
    /\ UNCHANGED <<bt, in_pos, i, btOthers>>

BtNext == LoopStep \/ LoopExit \/ ComputeReturns \/ ComputeMetrics

SpecBacktest == BtInit /\ [][BtNext]_vars

(***************************************************************************)
(* Properties of the backtest.                                             *)
(***************************************************************************)
BtLen == Len(bt.BTC)
LoopFinished == bt_pc # "loop"

\* C1: the position is a two-state machine {flat = 0, long = 1} that starts
\* flat; for every processed day t >= 1: flat with yesterday's entry signal
\* true becomes long, long with yesterday's exit signal true becomes flat,
\* and in every other case the position of day t-1 is kept.
C1_PositionStateMachine ==
    /\ bt.Position[1] = 0
    /\ \A k \in 1..BtLen : bt.Position[k] \in {0, 1}
    /\ \A t \in 1..(i - 1) :
          LET prev == bt.Position[t]
              cur == bt.Position[t + 1]
              e == bt.EntrySignal[t]
              x == bt.ExitSignal[t]
          IN  /\ (prev = 0 /\ e) => cur = 1
              /\ (prev = 1 /\ x) => cur = 0
              /\ ~((prev = 0 /\ e) \/ (prev = 1 /\ x)) => cur = prev

\* a finished run that entered, held through a day and left again
C1_Witness ==
    /\ bt_pc = "done"
    /\ \E a, b, c \in 1..(BtLen - 1) :
          /\ bt.Position[a] = 0 /\ bt.EntrySignal[a] /\ bt.Position[a + 1] = 1
          /\ bt.Position[b] = 1 /\ ~bt.ExitSignal[b] /\ bt.EntrySignal[b]
             /\ bt.Position[b + 1] = 1
          /\ bt.Position[c] = 1 /\ bt.ExitSignal[c] /\ bt.Position[c + 1] = 0

\* the signal columns with the values of day t (element t) replaced
WithSignalsAt(t, e2, x2) ==
    [EntrySignal |-> [bt.EntrySignal EXCEPT ![t] = e2],
     ExitSignal |-> [bt.ExitSignal EXCEPT ![t] = x2]]

\* the position column of the run on the signals changed at day t
AltPosition(t, e2, x2) ==
    LET a == WithSignalsAt(t, e2, x2)
    IN  RunLoop(a.EntrySignal, a.ExitSignal, BtLen - 1).Position

\* C2: one-day lag.  A run whose signal series differ from this run's only
\* at a single day t has the same position at every day <= t.
C2_OneDayLag ==
    LoopFinished =>
        \A t \in 1..BtLen : \A e2, x2 \in BOOLEAN :
            \A k \in 1..t : AltPosition(t, e2, x2)[k] = bt.Position[k]

\* changing the signals of a day does change the position of the next day
C2_Witness ==
    /\ bt_pc = "done"
    /\ \E t \in 1..(BtLen - 1) : \E e2, x2 \in BOOLEAN :
          AltPosition(t, e2, x2)[t + 1] # bt.Position[t + 1]

\* C3 as stated: the strategy return of day t is the BTC return of day t
\* times the position of day t (the one decided from the signals of t-1),
\* so a flat strategy that sees an entry signal on day t-1 earns BTC's
\* return on day t.
C3_SameRowPosition ==
    bt_pc = "done" =>
        \A t \in 2..BtLen :
            /\ bt.StratRet[t] = FMul(bt.Ret[t], FromInt(bt.Position[t]))
            /\ (bt.Position[t - 1] = 0 /\ bt.EntrySignal[t - 1])
                   => bt.StratRet[t] = bt.Ret[t]

\* C3 amended: the strategy return of day t is the BTC return of day t
\* times the Position value of day t-1 (Position.shift(1)); a flat strategy
\* that sees an entry signal on day t-1 has Position 1 on day t, return 0 on
\* day t and BTC's return on day t+1.
C3_ShiftedPosition ==
    bt_pc = "done" =>
        /\ \A t \in 2..BtLen :
              bt.StratRet[t] = FMul(bt.Ret[t], FromInt(bt.Position[t - 1]))
        /\ \A t \in 2..BtLen :
              (bt.Position[t - 1] = 0 /\ bt.EntrySignal[t - 1]) =>
                  /\ bt.Position[t] = 1
                  /\ bt.StratRet[t] = FromInt(0)
                  /\ t < BtLen => bt.StratRet[t + 1] = bt.Ret[t + 1]

\* an entry signal seen while flat, followed by two days of non-zero BTC
\* returns: the first is not earned, the second is
C3_Witness ==
    /\ bt_pc = "done"
    /\ \E t \in 2..(BtLen - 1) :
          /\ bt.Position[t - 1] = 0 /\ bt.EntrySignal[t - 1]
          /\ bt.Ret[t] # FromInt(0) /\ bt.StratRet[t] = FromInt(0)
          /\ bt.Ret[t + 1] # FromInt(0) /\ bt.StratRet[t + 1] = bt.Ret[t + 1]

\* C7: both equity curves are 1 on the first row and on every later day the
\* previous equity times (1 + that curve's return of the day); the strategy
\* equity does not move on a day whose applied position is 0; total return
\* is the final equity minus 1.
C7_EquityCurves ==
    bt_pc = "done" =>
        /\ bt.Equity[1] = FromInt(1)
        /\ bt.BH_Equity[1] = FromInt(1)
        /\ \A t \in 2..BtLen :
              /\ bt.Equity[t] =
                     FMul(bt.Equity[t - 1], FAdd(FromInt(1), bt.StratRet[t]))
              /\ bt.BH_Equity[t] =
                     FMul(bt.BH_Equity[t - 1], FAdd(FromInt(1), bt.Ret[t]))
              /\ bt.Position[t - 1] = 0 => bt.Equity[t] = bt.Equity[t - 1]
        /\ metrics.total_ret = FSub(bt.Equity[BtLen], FromInt(1))
        /\ metrics.bh_ret = FSub(bt.BH_Equity[BtLen], FromInt(1))

\* a run whose equity stays put on a day BTC moved (flat) and moves on
\* another day (long)
C7_Witness ==
    /\ bt_pc = "done"
    /\ \E a, b \in 2..BtLen :
          /\ bt.Position[a - 1] = 0 /\ bt.Ret[a] # FromInt(0)
             /\ bt.Equity[a] = bt.Equity[a - 1]
          /\ bt.Position[b - 1] = 1 /\ bt.Equity[b] # bt.Equity[b - 1]
    /\ metrics.total_ret # FromInt(0)

\* the daily strategy returns have no spread: all defined values are equal
ZeroSpread ==
    \A j, k \in 2..BtLen : bt.StratRet[j] = bt.StratRet[k]
NeverEnters == \A k \in 1..BtLen : bt.Position[k] = 0

\* C8: when the standard deviation of the daily strategy returns is zero,
\* in particular when the strategy never enters a position, the Sharpe
\* ratio is rendered as "N/A" and is not a number.
C8_SharpeUnavailable ==
    bt_pc = "done" =>
        ((ZeroSpread \/ NeverEnters) =>
            metrics.sr.nan /\ metrics.sharpe_text = "N/A")

\* a strategy that never entered while BTC moved, and one that was in the
\* market with zero spread are both rendered "N/A"
C8_Witness ==
    /\ bt_pc = "done"
    /\ BtLen >= 3
    /\ NeverEnters
    /\ \E t \in 2..BtLen : bt.Ret[t] # FromInt(0)
    /\ StdSquared(bt.StratRet) = FromInt(0)
    /\ metrics.sharpe_text = "N/A"

(***************************************************************************)
(* Data loading and signal composition, lines 16-123.                      *)
(*                                                                         *)
(* A history frame (date, value) is a sequence over the days of the model: *)
(* NaN on a day means the frame has no row for it.  The columns computed   *)
(* from prices over trailing windows (RelPerfPctile, PiTop) and from the   *)
(* calendar (Halving_IN, Halving_OUT) are drawn as values.                 *)
(***************************************************************************)
SigDays == 3       \* rows of df

CBBI_IN_MAX == 20
CBBI_OUT_MIN == 90
CB_RANK_HOT_MAX == 5
CB_RANK_COLD_MIN == 100

\* values a stored sentiment score and a stored rank may hold on a day
CbbiValues == {NaN, FromInt(10), FromInt(95)}
RankValues == {NaN, FromInt(3), FromInt(150)}
\* the slider's default, 0.15
PctlIn == Rat(15, 100)

\* the columns of lines 95-98, the same on every row: RelPerfPctile is
\* missing, below or above pctl_in; the two halving windows never overlap
IndicatorCols ==
    { [RelPerfPctile |-> [k \in 1..SigDays |-> r],
       PiTop |-> [k \in 1..SigDays |-> p],
       Halving_IN |-> [k \in 1..SigDays |-> h[1]],
       Halving_OUT |-> [k \in 1..SigDays |-> h[2]]] :
        r \in {NaN, Rat(1, 10), Rat(1, 2)}, p \in BOOLEAN,
        h \in {<<FALSE, FALSE>>, <<TRUE, FALSE>>, <<FALSE, TRUE>>} }

AllNaN == [k \in 1..SigDays |-> NaN]


\* the days on which a frame has a row
Obs(raw) == {k \in 1..Len(raw) : ~raw[k].nan}
\* DataFrame.empty
IsEmpty(raw) == Obs(raw) = {}

\* set_index("date").asfreq("D"): one row per day from the first to the
\* last stored date; InRange says whether day k has a row afterwards
InRange(raw, k) == ~IsEmpty(raw) /\ SetMin(Obs(raw)) <= k /\ k <= SetMax(Obs(raw))

\* .interpolate(limit_direction="both"): a missing row between two stored
\* values lies on the line through them
Interpolate(raw) ==
    [k \in 1..Len(raw) |->
        IF ~InRange(raw, k) THEN NaN
        ELSE LET a == SetMax({j \in Obs(raw) : j <= k})
                 b == SetMin({j \in Obs(raw) : j >= k})
             IN  IF a = b THEN raw[k]
                 ELSE FAdd(raw[a],
                           FMul(FSub(raw[b], raw[a]), Rat(k - a, b - a)))]

\* .bfill().ffill(): a missing row takes the next stored value; ffill then
\* finds nothing left to fill, the last row of the range being a stored one
BfillFfill(raw) ==
    [k \in 1..Len(raw) |->
        IF ~InRange(raw, k) THEN NaN
        ELSE raw[SetMin({j \in Obs(raw) : j >= k})]]

\* lines 42-45
FillCbbi(raw) == IF ~IsEmpty(raw) THEN Interpolate(raw) ELSE raw
FillRank(raw) == IF ~IsEmpty(raw) THEN BfillFfill(raw) ELSE raw

\* lines 85-93: df.join(..., how="left"), or a NaN column for an empty frame
JoinCol(frame) == IF ~IsEmpty(frame) THEN frame ELSE AllNaN

\* lines 84-98
BuildDf(c, r, ind) ==
    [cbbi |-> JoinCol(c), coinbase_rank |-> JoinCol(r),
     RelPerfPctile |-> ind.RelPerfPctile, PiTop |-> ind.PiTop,
     Halving_IN |-> ind.Halving_IN, Halving_OUT |-> ind.Halving_OUT,
     EntrySignal |-> <<>>, ExitSignal |-> <<>>]

\* lines 104-109, one row; a comparison with NaN is False
EntryParts(d, pr, k) ==
    << FLe(d.cbbi[k], FromInt(CBBI_IN_MAX)),
       FGe(d.coinbase_rank[k], FromInt(CB_RANK_COLD_MIN)),
       FLe(d.RelPerfPctile[k], pr.pctl_in),
       d.Halving_IN[k] >>

\* lines 110-115, one row
ExitParts(d, pr, k) ==
    << d.PiTop[k],
       FGe(d.cbbi[k], FromInt(CBBI_OUT_MIN)),
       FLe(d.coinbase_rank[k], FromInt(CB_RANK_HOT_MAX)),
       d.Halving_OUT[k] >>

\* sum([p.fillna(False) for p in parts]), one row
CountTrue(parts) == Cardinality({j \in 1..Len(parts) : parts[j]})

\* variant of the code: the relaxed rule asks for one condition only
NeedRelaxedOne(strict, nparts) == IF strict THEN nparts ELSE 1

\* lines 120-121: len(parts) if strict else 2
Need(strict, nparts) == IF strict THEN nparts ELSE 2

\* lines 117-123
EntrySignalCol(d, pr) ==
    [k \in 1..Len(d.cbbi) |->
        CountTrue(EntryParts(d, pr, k)) >= Need(pr.strict_entry, Len(EntryParts(d, pr, k)))]
ExitSignalCol(d, pr) ==
    [k \in 1..Len(d.cbbi) |->
        CountTrue(ExitParts(d, pr, k)) >= Need(pr.strict_exit, Len(ExitParts(d, pr, k)))]

\* lines 42-123 on given history frames: the two signal columns
SignalsOf(cbbiRaw, rankRaw, ind, pr) ==
    LET d == BuildDf(FillCbbi(cbbiRaw), FillRank(rankRaw), ind)
    IN  [EntrySignal |-> EntrySignalCol(d, pr), ExitSignal |-> ExitSignalCol(d, pr)]

\* what the providers may return: prices that arrive, raise or come back
\* empty; each history either raises or is a frame, possibly empty
FetchResults ==
    { [price |-> "ok", cbbi_fetch |-> "ok", rank_fetch |-> "ok",
       cbbi_raw |-> c, rank_raw |-> r, ind |-> x] :
          c \in [1..SigDays -> CbbiValues], r \in [1..SigDays -> RankValues],
          x \in IndicatorCols }
    \cup
    { [price |-> o[1], cbbi_fetch |-> o[2], rank_fetch |-> o[3],
       cbbi_raw |-> AllNaN, rank_raw |-> AllNaN,
       ind |-> CHOOSE x \in IndicatorCols : TRUE] :
          o \in { <<"raises", "ok", "ok">>, <<"empty", "ok", "ok">>,
                  <<"ok", "raises", "ok">>, <<"ok", "ok", "raises">> } }

\* the toggles of lines 20-22 and the slider of line 26
SigInit ==
    /\ sig_pc = "load"
    /\ \E se, sx \in BOOLEAN :
          params = [strict_entry |-> se, strict_exit |-> sx, pctl_in |-> PctlIn]
    /\ fetched = <<>>
    /\ cbbi = <<>>
    /\ rank = <<>>
    /\ df = <<>>
    /\ st_error = ""
    /\ IdleExcept("sig")

\* lines 33-51: every fetch returns and df has rows
LoadOk ==
    /\ sig_pc = "load"
    /\ \E f \in FetchResults :
          /\ f.price = "ok" /\ f.cbbi_fetch = "ok" /\ f.rank_fetch = "ok"
          /\ fetched' = f
          /\ cbbi' = FillCbbi(f.cbbi_raw)
          /\ rank' = FillRank(f.rank_raw)
    /\ sig_pc' = "indicators"
    /\ UNCHANGED <<params, df, st_error, sigOthers>>

\* lines 52-54: a fetch raised, or the price frame is empty and
\* df.index[0] raised: st.error and st.stop
LoadFails ==
    /\ sig_pc = "load"
    /\ \E f \in FetchResults :
          /\ f.price # "ok" \/ f.cbbi_fetch # "ok" \/ f.rank_fetch # "ok"
          /\ fetched' = f
          /\ st_error' = IF f.price # "ok" THEN "price"
                         ELSE IF f.cbbi_fetch # "ok" THEN "cbbi" ELSE "rank"
    /\ sig_pc' = "stopped"
    /\ UNCHANGED <<params, cbbi, rank, df, sigOthers>>

\* lines 57-98
ComputeIndicators ==
    /\ sig_pc = "indicators"
    /\ df' = BuildDf(cbbi, rank, fetched.ind)
    /\ sig_pc' = "compose"
    /\ UNCHANGED <<params, fetched, cbbi, rank, st_error, sigOthers>>

\* lines 104-123
ComposeSignals ==
    /\ sig_pc = "compose"
    /\ df' = [df EXCEPT !.EntrySignal = EntrySignalCol(df, params),
                        !.ExitSignal = ExitSignalCol(df, params)]
    /\ sig_pc' = "done"
    /\ UNCHANGED <<params, fetched, cbbi, rank, st_error, sigOthers>>

SigNext == LoadOk \/ LoadFails \/ ComputeIndicators \/ ComposeSignals

SpecSignals == SigInit /\ [][SigNext]_vars

(***************************************************************************)
(* Properties of data loading and signal composition.                      *)
(***************************************************************************)
\* C4 as stated: no look-ahead.  The signals of day t are the same in every
\* run whose stored sentiment and rank observations agree with this run's
\* on every day <= t, whatever is stored for later days.
C4_NoLookAhead ==
    sig_pc = "done" =>
        \A t \in 1..SigDays :
            \A c2 \in [1..SigDays -> CbbiValues], r2 \in [1..SigDays -> RankValues] :
                (\A k \in 1..t : c2[k] = fetched.cbbi_raw[k] /\ r2[k] = fetched.rank_raw[k])
                    => LET alt == SignalsOf(c2, r2, fetched.ind, params)
                       IN  /\ alt.EntrySignal[t] = df.EntrySignal[t]
                           /\ alt.ExitSignal[t] = df.ExitSignal[t]

Present(x) == ~x.nan
B2N(b) == IF b THEN 1 ELSE 0

\* the number of entry conditions true on row k, a missing value counting
\* as false
EntryCount(k) ==
    B2N(Present(df.cbbi[k]) /\ df.cbbi[k].n <= CBBI_IN_MAX * df.cbbi[k].d)
    + B2N(Present(df.coinbase_rank[k])
          /\ df.coinbase_rank[k].n >= CB_RANK_COLD_MIN * df.coinbase_rank[k].d)
    + B2N(Present(df.RelPerfPctile[k])
          /\ df.RelPerfPctile[k].n * params.pctl_in.d
                 <= params.pctl_in.n * df.RelPerfPctile[k].d)
    + B2N(df.Halving_IN[k])

\* the number of exit conditions true on row k
ExitCount(k) ==
    B2N(df.PiTop[k])
    + B2N(Present(df.cbbi[k]) /\ df.cbbi[k].n >= CBBI_OUT_MIN * df.cbbi[k].d)
    + B2N(Present(df.coinbase_rank[k])
          /\ df.coinbase_rank[k].n <= CB_RANK_HOT_MAX * df.coinbase_rank[k].d)
    + B2N(df.Halving_OUT[k])

\* C5: on every day the entry signal is true iff the number of true entry
\* conditions is 4 under strictEntry and at least 2 otherwise; the exit
\* signal likewise under strictExit; a missing value makes its condition
\* false.
C5_CompositeSignals ==
    sig_pc = "done" =>
        \A k \in 1..SigDays :
            /\ df.EntrySignal[k] <=>
                  IF params.strict_entry THEN EntryCount(k) = 4 ELSE EntryCount(k) >= 2
            /\ df.ExitSignal[k] <=>
                  IF params.strict_exit THEN ExitCount(k) = 4 ELSE ExitCount(k) >= 2

\* relaxed entry fires on exactly two conditions with the sentiment score
\* missing, strict exit does not fire on two; and a strict entry fires on
\* another row set
C5_Witness ==
    /\ sig_pc = "done"
    /\ ~params.strict_entry /\ params.strict_exit
    /\ \E k \in 1..SigDays :
          /\ df.cbbi[k].nan
          /\ EntryCount(k) = 2 /\ df.EntrySignal[k]
          /\ ExitCount(k) = 2 /\ ~df.ExitSignal[k]
    /\ \E k \in 1..SigDays : EntryCount(k) = 1 /\ ~df.EntrySignal[k]

\* a required input is missing: its fetch raised or its series is empty
InputMissing ==
    \/ fetched.price # "ok"
    \/ fetched.cbbi_fetch # "ok" \/ IsEmpty(fetched.cbbi_raw)
    \/ fetched.rank_fetch # "ok" \/ IsEmpty(fetched.rank_raw)

\* C6 as stated: fail-fast.  Once loading is over with a required input
\* missing, the script has stopped and named the input; it never goes on
\* to indicators, signals or the simulation.
C6_FailFast ==
    (sig_pc # "load" /\ InputMissing) => (sig_pc = "stopped" /\ st_error # "")

(***************************************************************************)
(* get_pi_cycle_data, utils/pi_cycle.py.                                   *)
(*                                                                         *)
(* The windows are the program's, 111 and 350 rows.  A fetched series is a *)
(* flat stretch followed by a few free closes, placed so that the rows     *)
(* left by dropna are the free ones; a short series stands for a history   *)
(* too short for the long window.                                          *)
(***************************************************************************)
MA111_WINDOW == 111
MA350_WINDOW == 350

PiLead == 3        \* free closes before the first row with both averages
PiTail == 5        \* free closes in all
\* closes of a row; with a flat stretch at the lowest one, the middle one
\* puts MA111 exactly on MA350x2 and the highest one above it
PiPrices == {64, 19489, 30000}

PiFlat == [k \in 1..(MA350_WINDOW - PiLead) |-> SetMin(PiPrices)]

PiSeries ==
    {PiFlat \o tail : tail \in [1..PiTail -> PiPrices]}
    \cup {[k \in 1..PiTail |-> SetMin(PiPrices)]}

RECURSIVE WindowSum(_, _, _)
WindowSum(col, lo, hi) ==
    IF hi < lo THEN 0
    ELSE IF hi = lo THEN col[lo]
    ELSE LET mid == (lo + hi) \div 2
         IN  WindowSum(col, lo, mid) + WindowSum(col, mid + 1, hi)

\* Series.rolling(window=w).mean(): NaN until the window is full
RollingMean(col, w) ==
    [k \in 1..Len(col) |->
        IF k < w THEN NaN ELSE Rat(WindowSum(col, k - w + 1, k), w)]

\* the rows dropna keeps: those with no NaN in any column
KeptRows(ma111, ma350) ==
    {k \in 1..Len(ma111) : ~ma111[k].nan /\ ~ma350[k].nan}

\* a column restricted to the kept rows, in order
KeepRows(col, keep) ==
    [j \in 1..Cardinality(keep) |->
        col[CHOOSE k \in keep : Cardinality({m \in keep : m <= k}) = j]]

\* lines 42-50: the averages, the ratio, and dropna(inplace=True)
CalcFrame(close) ==
    LET ma111 == RollingMean(close, MA111_WINDOW)
        ma350 == RollingMean(close, MA350_WINDOW)
        keep == KeptRows(ma111, ma350)
        x2 == [k \in 1..Len(close) |-> FMul(ma350[k], FromInt(2))]
    IN  [dates |-> KeepRows([k \in 1..Len(close) |-> k], keep),
         Close |-> KeepRows(close, keep),
         MA111 |-> KeepRows(ma111, keep),
         MA350 |-> KeepRows(ma350, keep),
         MA350x2 |-> KeepRows(x2, keep),
         Ratio |-> KeepRows([k \in 1..Len(close) |-> FDiv(ma111[k], x2[k])], keep),
         Crossover |-> <<>>]

\* variant of the code: a strict > on the current row
CrossoverColStrict(ma111, x2) ==
    [k \in 1..Len(ma111) |->
        FLt(Shift1(ma111)[k], Shift1(x2)[k]) /\ FGt(ma111[k], x2[k])]

\* lines 53-56: (MA111.shift(1) < MA350x2.shift(1)) & (MA111 >= MA350x2)
CrossoverCol(ma111, x2) ==
    [k \in 1..Len(ma111) |->
        FLt(Shift1(ma111)[k], Shift1(x2)[k]) /\ FGe(ma111[k], x2[k])]

\* lines 72-77: the (date, price) pairs of the rows flagged
CrossoverList(frame) ==
    LET hit == {k \in 1..Len(frame.Crossover) : frame.Crossover[k]}
    IN  KeepRows([k \in 1..Len(frame.Close) |->
                     [date |-> frame.dates[k], price |-> frame.Close[k]]], hit)

PiInit ==
    /\ pi_pc = "fetch"
    /\ btc_data = <<>>
    /\ response = <<>>
    /\ pi_close = <<>>
    /\ pitop = <<>>
    /\ IdleExcept("pi")

\* line 39
PiFetch ==
    /\ pi_pc = "fetch"
    /\ \E c \in PiSeries :
          /\ btc_data' = [dates |-> [k \in 1..Len(c) |-> k], Close |-> c,
                          MA111 |-> <<>>, MA350 |-> <<>>, MA350x2 |-> <<>>,
                          Ratio |-> <<>>, Crossover |-> <<>>]
          /\ pi_close' = c
    /\ pi_pc' = "mas"
    /\ UNCHANGED <<response, pitop, piOthers>>

\* lines 42-50
PiCalcMAs ==
    /\ pi_pc = "mas"
    /\ btc_data' = CalcFrame(btc_data.Close)
    /\ pi_pc' = "crossovers"
    /\ UNCHANGED <<response, pi_close, pitop, piOthers>>

\* lines 53-56
PiDetectCrossovers ==
    /\ pi_pc = "crossovers"
    /\ btc_data' = [btc_data EXCEPT
                       !.Crossover = CrossoverCol(btc_data.MA111, btc_data.MA350x2)]
    /\ pi_pc' = "response"
    /\ UNCHANGED <<response, pi_close, pitop, piOthers>>

\* lines 59-80
PiBuildResponse ==
    /\ pi_pc = "response"
    /\ response' = [dates |-> btc_data.dates,
                    ratio |-> IF Len(btc_data.Ratio) > 0
                              THEN btc_data.Ratio[Len(btc_data.Ratio)] ELSE NaN,
                    crossovers |-> CrossoverList(btc_data)]
    /\ pi_pc' = "done"
    /\ UNCHANGED <<btc_data, pi_close, pitop, piOthers>>

PiNext == PiFetch \/ PiCalcMAs \/ PiDetectCrossovers \/ PiBuildResponse

SpecPiCycle == PiInit /\ [][PiNext]_vars

(***************************************************************************)
(* The backtest page's Pi Cycle condition, 06_ScaleSignals_Backtest.py     *)
(* lines 57-61 and 94, over the closes get_pi_cycle_data works on.         *)
(***************************************************************************)
PI_SHORT == 111
PI_LONG == 350

\* row k of col.mul(2) and of col.shift(1)
Mul2At(col, k) == FMul(col[k], FromInt(2))
Shift1At(col, k) == IF k = 1 THEN NaN ELSE col[k - 1]

\* lines 59-61 and 94:
\* (sma_111.mul(2).shift(1) <= sma_350.shift(1)) & (sma_111.mul(2) > sma_350),
\* then fillna(False)
PiTopCol(close) ==
    LET sma_111 == RollingMean(close, PI_SHORT)
        sma_350 == RollingMean(close, PI_LONG)
    IN  [k \in 1..Len(close) |->
            /\ FLe(FMul(Shift1At(sma_111, k), FromInt(2)), Shift1At(sma_350, k))
            /\ FGt(Mul2At(sma_111, k), sma_350[k])]

\* lines 57-61
PtIndicators ==
    /\ pi_close # <<>>
    /\ pitop = <<>>
    /\ pitop' = PiTopCol(pi_close)
    /\ UNCHANGED <<pi_pc, btc_data, response, pi_close, piOthers>>

SpecPiTop == PiInit /\ [][PiNext \/ PtIndicators]_vars

(***************************************************************************)
(* Properties of get_pi_cycle_data.                                        *)
(***************************************************************************)
\* the row of the frame that holds date t, 0 when no row does
RowOf(t) ==
    IF \E r \in 1..Len(btc_data.dates) : btc_data.dates[r] = t
    THEN CHOOSE r \in 1..Len(btc_data.dates) : btc_data.dates[r] = t
    ELSE 0

Recorded(t) == \E j \in 1..Len(response.crossovers) : response.crossovers[j].date = t

\* MA111 < 2 * MA350 on row r, from the row's stored averages
BelowAt(r) ==
    btc_data.MA111[r].n * btc_data.MA350[r].d
        < 2 * btc_data.MA350[r].n * btc_data.MA111[r].d

\* C9: a crossover is recorded at date t iff both averages are defined at
\* t-1 and at t, MA111 < 2*MA350 at t-1 and MA111 >= 2*MA350 at t; none is
\* recorded on the first date with defined averages, and a series that
\* stays below on every date yields an empty list.
C9_CrossoverRule ==
    pi_pc = "done" =>
        /\ \A t \in 1..(MA350_WINDOW + PiTail) :
              Recorded(t) <=>
                  /\ RowOf(t) # 0 /\ RowOf(t - 1) # 0
                  /\ BelowAt(RowOf(t - 1))
                  /\ ~BelowAt(RowOf(t))
        /\ \A j \in 1..Len(response.crossovers) :
              /\ response.crossovers[j].date # btc_data.dates[1]
              /\ response.crossovers[j].price
                     = btc_data.Close[RowOf(response.crossovers[j].date)]
        /\ (\A r \in 1..Len(btc_data.dates) : BelowAt(r)) => response.crossovers = <<>>

\* a crossover recorded on a date where MA111 meets 2*MA350 exactly, after
\* a first date that is left out of the list
C9_Witness ==
    /\ pi_pc = "done"
    /\ Len(btc_data.dates) >= 3
    /\ btc_data.dates[1] = MA350_WINDOW
    /\ \E r \in 2..Len(btc_data.dates) :
          /\ Recorded(btc_data.dates[r])
          /\ btc_data.MA111[r] = btc_data.MA350x2[r]
          /\ BelowAt(r - 1)

\* C22 as stated: on every date the backtest page's Pi Cycle condition is
\* true exactly when the detector records a crossover, that is when MA111
\* is below 2*MA350 on the date before and not below it on the date.
C22_PiTopIsDetectorCrossover ==
    (pi_pc = "done" /\ pitop # <<>>) =>
        \A t \in 1..Len(pitop) :
            /\ pitop[t] <=> Recorded(t)
            /\ pitop[t] <=>
                  /\ RowOf(t) # 0 /\ RowOf(t - 1) # 0
                  /\ BelowAt(RowOf(t - 1))
                  /\ ~BelowAt(RowOf(t))

(***************************************************************************)
(* get_halving_data, utils/halving_tracker.py.                             *)
(*                                                                         *)
(* A date string is the record of its year, month and day.  A datetime is  *)
(* a day number (days since 1970-01-01) and the second of the day;         *)
(* microseconds are left out.                                              *)
(***************************************************************************)
SECONDS_PER_DAY == 86400
TOP_LAG_DAYS == 520

\* datetime.strptime(s, '%Y-%m-%d'): the day number of a civil date
DaysFromCivil(y, m, d) ==
    LET yy == IF m <= 2 THEN y - 1 ELSE y
        era == yy \div 400
        yoe == yy - era * 400
        mp == IF m > 2 THEN m - 3 ELSE m + 9
        doy == (153 * mp + 2) \div 5 + d - 1
        doe == yoe * 365 + yoe \div 4 - yoe \div 100 + doy
    IN  era * 146097 + doe - 719468

\* strftime('%Y-%m-%d'): the civil date of a day number
CivilFromDays(z) ==
    LET zz == z + 719468
        era == zz \div 146097
        doe == zz - era * 146097
        yoe == (doe - doe \div 1460 + doe \div 36524 - doe \div 146096) \div 365
        doy == doe - (365 * yoe + yoe \div 4 - yoe \div 100)
        mp == (5 * doy + 2) \div 153
        d == doy - (153 * mp + 2) \div 5 + 1
        m == IF mp < 10 THEN mp + 3 ELSE mp - 9
        y == yoe + era * 400
    IN  [y |-> IF m <= 2 THEN y + 1 ELSE y, m |-> m, d |-> d]

Date(y, m, d) == [y |-> y, m |-> m, d |-> d]

\* strptime of a date string: midnight of that day
Strptime(s) == [day |-> DaysFromCivil(s.y, s.m, s.d), sec |-> 0]
Strftime(dt) == CivilFromDays(dt.day)

\* lines 34-39
halving_dates ==
    << Date(2012, 11, 28), Date(2016, 7, 9), Date(2020, 5, 11), Date(2024, 4, 20) >>

\* datetime comparison
DtLe(a, b) == a.day < b.day \/ (a.day = b.day /\ a.sec <= b.sec)
DtGt(a, b) == ~DtLe(a, b)

\* datetime + timedelta(days=n)
PlusDays(dt, n) == [day |-> dt.day + n, sec |-> dt.sec]

\* (a - b).days: a timedelta keeps 0 <= seconds < 86400, so its days are
\* the floor of the difference in days
DeltaDays(a, b) ==
    (a.day - b.day) + ((a.sec - b.sec) - ((a.sec - b.sec) % SECONDS_PER_DAY))
                          \div SECONDS_PER_DAY

\* variant of the code: with no halving in the past, the first table entry
\* is taken
ScanLastFirstEntry(now, k) ==
    LET past == {j \in 1..k : DtLe(Strptime(halving_dates[j]), now)}
    IN  IF past = {} THEN <<halving_dates[1]>> ELSE <<halving_dates[SetMax(past)]>>

\* lines 45-49: the last table entry not after `now`, in table order
RECURSIVE ScanLast(_, _)
ScanLast(now, k) ==
    IF k = 0 THEN <<>>
    ELSE IF DtLe(Strptime(halving_dates[k]), now) /\
            \A j \in (k + 1)..Len(halving_dates) : ~DtLe(Strptime(halving_dates[j]), now)
    THEN <<halving_dates[k]>>
    ELSE ScanLast(now, k - 1)

\* lines 57-62: the first table entry after `now`
ScanNext(now) ==
    LET later == {k \in 1..Len(halving_dates) : DtGt(Strptime(halving_dates[k]), now)}
    IN  IF later = {} THEN <<>> ELSE <<halving_dates[SetMin(later)]>>

\* lines 53-86
CyclePosition(now, last) ==
    LET last_halving_date == Strptime(last)
        nxt == ScanNext(now)
        next_halving_date ==
            IF nxt # <<>> THEN Strptime(nxt[1])
            ELSE PlusDays(last_halving_date, 4 * 365)
        projected_top_date == PlusDays(last_halving_date, TOP_LAG_DAYS)
    IN  [last_halving_date |-> last,
         days_since_halving |-> DeltaDays(now, last_halving_date),
         next_halving_date |-> IF nxt # <<>> THEN nxt[1] ELSE Strftime(next_halving_date),
         days_until_next_halving |-> DeltaDays(next_halving_date, now),
         projected_top_date |-> Strftime(projected_top_date),
         days_until_projected_top |-> DeltaDays(projected_top_date, now)]

\* yf.download('BTC-USD', start, end): the days with a close, from start
\* up to the day before end and no later than the day of now
Download(start, end, now) ==
    {d \in start.day..(end.day - 1) : d <= now.day}

\* lines 100-109 and 133-140: the first date of the index with the least
\* abs((date - halving).days)
ClosestDate(index, halving) ==
    LET diff(d) == Abs(d - halving.day)
        least == SetMin({diff(d) : d \in index})
    IN  SetMin({d \in index : diff(d) = least})

\* lines 90-118: the current cycle, from 30 days before the last halving;
\* base is the date whose price is normalized to 100, <<>> when the
\* download is empty
CurrentCycle(now, last) ==
    LET last_halving_date == Strptime(last)
        index == Download(PlusDays(last_halving_date, -30), now, now)
    IN  [halving_date |-> last,
         base |-> IF index = {} THEN <<>>
                  ELSE <<CivilFromDays(ClosestDate(index, last_halving_date))>>]

\* lines 121-152: for i in range(len(halving_dates) - 2), one entry per
\* cycle whose download is not empty
RECURSIVE PreviousCycles(_, _)
PreviousCycles(now, n) ==
    IF n = 0 THEN <<>>
    ELSE LET cycle_start == Strptime(halving_dates[n])
             cycle_end == Strptime(halving_dates[n + 1])
             index == Download(cycle_start, cycle_end, now)
         IN  IF index = {} THEN PreviousCycles(now, n - 1)
             ELSE Append(PreviousCycles(now, n - 1),
                         [halving_date |-> halving_dates[n],
                          next_halving |-> halving_dates[n + 1],
                          base |-> CivilFromDays(ClosestDate(index, cycle_start))])

\* lines 118 and 154: the two chart entries of the response
Cycles(now, last) ==
    [current_cycle |-> CurrentCycle(now, last),
     previous_cycles |-> PreviousCycles(now, Len(halving_dates) - 2)]

HvSlack == 1       \* days drawn on each side of a date of interest

\* the moments `now` is drawn from: around each halving, its projected top
\* and its four-year mark, at several times of the day
HvDayNumbers ==
    { Strptime(halving_dates[k]).day + a + o :
        k \in 1..Len(halving_dates), a \in {0, TOP_LAG_DAYS, 4 * 365},
        o \in (0 - HvSlack)..HvSlack }
HvSeconds == {0, 1, 43200, SECONDS_PER_DAY - 1}

HvInit ==
    /\ hv_pc = "now"
    /\ current_date = [day |-> 0, sec |-> 0]
    /\ last_halving = <<>>
    /\ response_data = <<>>
    /\ IdleExcept("hv")

\* line 42
HvNow ==
    /\ hv_pc = "now"
    /\ \E d \in HvDayNumbers, sec \in HvSeconds : current_date' = [day |-> d, sec |-> sec]
    /\ hv_pc' = "scan"
    /\ UNCHANGED <<last_halving, response_data, hvOthers>>

\* lines 44-49
HvScan ==
    /\ hv_pc = "scan"
    /\ last_halving' = ScanLast(current_date, Len(halving_dates))
    /\ hv_pc' = "position"
    /\ UNCHANGED <<current_date, response_data, hvOthers>>

\* lines 52-86 and 157
HvPosition ==
    /\ hv_pc = "position"
    /\ last_halving # <<>>
    /\ response_data' = <<CyclePosition(current_date, last_halving[1])
                             @@ Cycles(current_date, last_halving[1])>>
    /\ hv_pc' = "done"
    /\ UNCHANGED <<current_date, last_halving, hvOthers>>

\* lines 158-160: no halving is in the past, return None
HvNone ==
    /\ hv_pc = "position"
    /\ last_halving = <<>>
    /\ response_data' = <<>>
    /\ hv_pc' = "done"
    /\ UNCHANGED <<current_date, last_halving, hvOthers>>

\* lines 91, 127 and 162-164: a price download raises, return None
HvFetchRaises ==
    /\ hv_pc = "position"
    /\ last_halving # <<>>
    /\ response_data' = <<>>
    /\ hv_pc' = "done"
    /\ UNCHANGED <<current_date, last_halving, hvOthers>>

HvNext == HvNow \/ HvScan \/ HvPosition \/ HvFetchRaises \/ HvNone

SpecHalving == HvInit /\ [][HvNext]_vars

(***************************************************************************)
(* Properties of get_halving_data.                                         *)
(***************************************************************************)
\* C10 as stated: at every moment of the calendar day lastHalving + 520
\* days, days_until_projected_top is 0.
C10_ZeroOnProjectedTopDay ==
    (hv_pc = "done" /\ response_data # <<>>) =>
        (current_date.day
             = Strptime(response_data[1].last_halving_date).day + TOP_LAG_DAYS
           => response_data[1].days_until_projected_top = 0)

\* `now` is earlier than every tabulated halving
BeforeEveryHalving ==
    \A k \in 1..Len(halving_dates) : ~DtLe(Strptime(halving_dates[k]), current_date)

\* C11: when today is earlier than every tabulated halving date, the call
\* ends with no cycle position (None); and no returned result ever holds a
\* negative days_since_halving.
C11_NoPositionBeforeFirstHalving ==
    (hv_pc = "done") =>
        /\ BeforeEveryHalving => response_data = <<>>
        /\ response_data # <<>> => response_data[1].days_since_halving >= 0

C11_Witness ==
    hv_pc = "done" /\ BeforeEveryHalving /\ response_data = <<>>

\* the civil date four calendar years after a date string
PlusFourYears(s) == Date(s.y + 4, s.m, s.d)

\* the tabulated halving dates not after / after `now`, as day numbers
TabulatedPast ==
    {Strptime(halving_dates[k]).day : k \in {j \in 1..Len(halving_dates) :
                                             DtLe(Strptime(halving_dates[j]), current_date)}}
TabulatedFuture ==
    {Strptime(halving_dates[k]).day : k \in {j \in 1..Len(halving_dates) :
                                             DtGt(Strptime(halving_dates[j]), current_date)}}

\* C12 as stated: for today not earlier than the first halving,
\* last_halving_date is the greatest tabulated date <= today and
\* next_halving_date is the smallest tabulated date > today, or, when there
\* is none, last_halving_date plus four years.
C12_LastAndNextHalving ==
    (hv_pc = "done" /\ ~BeforeEveryHalving /\ response_data # <<>>) =>
        /\ Strptime(response_data[1].last_halving_date).day = SetMax(TabulatedPast)
        /\ response_data[1].next_halving_date =
              IF TabulatedFuture # {}
              THEN CivilFromDays(SetMin(TabulatedFuture))
              ELSE PlusFourYears(response_data[1].last_halving_date)

\* C29 as stated: a returned position has last_halving_date <= now <
\* next_halving_date, neither day count is negative, and the fraction
\* days_since / (days_since + days_until_next) of app.py line 1378 is
\* defined and lies in [0, 1].
C29_PositionWithinCycle ==
    (hv_pc = "done" /\ response_data # <<>>) =>
        LET r == response_data[1]
            days_since == r.days_since_halving
            days_until_next == r.days_until_next_halving
        IN  /\ DtLe(Strptime(r.last_halving_date), current_date)
            /\ DtGt(Strptime(r.next_halving_date), current_date)
            /\ days_since >= 0
            /\ days_until_next >= 0
            /\ days_since + days_until_next > 0
            /\ days_since <= days_since + days_until_next

\* the charted cycles that start at halving h: the entries of
\* previous_cycles and the current cycle
CyclesStartingAt(r, h) ==
    Cardinality({j \in 1..Len(r.previous_cycles) : r.previous_cycles[j].halving_date = h})
        + (IF r.current_cycle.halving_date = h THEN 1 ELSE 0)

\* C24 as stated: each pair of consecutive tabulated halvings with the
\* later one <= now has one previous_cycles entry, normalized to 100 at the
\* earlier one; the current cycle starts at last_halving_date; and every
\* tabulated halving <= now starts exactly one charted cycle.
C24_OneCyclePerHalving ==
    (hv_pc = "done" /\ response_data # <<>>) =>
        LET r == response_data[1]
        IN  /\ \A n \in 1..(Len(halving_dates) - 1) :
                  DtLe(Strptime(halving_dates[n + 1]), current_date) =>
                      /\ Cardinality({j \in 1..Len(r.previous_cycles) :
                                         /\ r.previous_cycles[j].halving_date = halving_dates[n]
                                         /\ r.previous_cycles[j].next_halving = halving_dates[n + 1]
                                         /\ r.previous_cycles[j].base = halving_dates[n]}) = 1
            /\ r.current_cycle.halving_date = r.last_halving_date
            /\ \A n \in 1..Len(halving_dates) :
                  DtLe(Strptime(halving_dates[n]), current_date) =>
                      CyclesStartingAt(r, halving_dates[n]) = 1

(***************************************************************************)
(* Dashboard Overview, app.py: get_indicator_status and the Combined       *)
(* Market Analysis.                                                        *)
(*                                                                         *)
(* A Python value is None, a number (an int or a float, NaN included) or a *)
(* string; a string is the sequence of its characters.                     *)
(***************************************************************************)
PyNone == [kind |-> "none", f |-> NaN, chars |-> <<>>]
Num(x) == [kind |-> "num", f |-> x, chars |-> <<>>]
PyInt(k) == Num(FromInt(k))
Str(cs) == [kind |-> "str", f |-> NaN, chars |-> cs]

\* dict.get(key): None when the key is absent
Get(d, key) == IF key \in DOMAIN d THEN d[key] ELSE PyNone

DigitChars == <<"0", "1", "2", "3", "4", "5", "6", "7", "8", "9">>
IsDigit(c) == \E k \in 1..10 : DigitChars[k] = c
DigitVal(c) == (CHOOSE k \in 1..10 : DigitChars[k] = c) - 1

RECURSIVE DigitsValue(_, _)
DigitsValue(cs, k) ==
    IF k = 0 THEN 0 ELSE 10 * DigitsValue(cs, k - 1) + DigitVal(cs[k])

RECURSIVE Pow10(_)
Pow10(k) == IF k = 0 THEN 1 ELSE 10 * Pow10(k - 1)

\* float(s) for a string over digits, '.', '+' and letters: <<x>> when s is
\* digits with at most one '.', <<>> for ValueError
PyFloat(cs) ==
    LET n == Len(cs)
        dots == {k \in 1..n : cs[k] = "."}
        digits == {k \in 1..n : IsDigit(cs[k])}
    IN  IF digits = {} \/ Cardinality(dots) > 1
           \/ digits \cup dots # 1..n
        THEN <<>>
        ELSE IF dots = {}
        THEN <<FromInt(DigitsValue(cs, n))>>
        ELSE LET p == CHOOSE k \in dots : TRUE
                 frac == SubSeq(cs, p + 1, n)
             IN  <<Rat(DigitsValue(cs, p - 1) * Pow10(Len(frac))
                         + DigitsValue(frac, Len(frac)),
                       Pow10(Len(frac)))>>

\* variant of the code: the second rank threshold is exclusive
RankStatusExclusive(value) ==
    IF value.kind = "str" /\ \E k \in 1..Len(value.chars) : value.chars[k] = "+"
    THEN <<"Normal Interest", "green">>
    ELSE LET numeric_value ==
                 IF value.kind = "str" THEN PyFloat(value.chars) ELSE <<value.f>>
         IN  IF numeric_value = <<>> THEN <<"Normal Interest", "green">>
             ELSE IF FLe(numeric_value[1], FromInt(10))
             THEN <<"Market Euphoria", "red">>
             ELSE IF FLt(numeric_value[1], FromInt(50))
             THEN <<"Growing Interest", "yellow">>
             ELSE <<"Normal Interest", "green">>

\* lines 92-110, the "Coinbase Rank" branch
RankStatus(value) ==
    IF value.kind = "str" /\ \E k \in 1..Len(value.chars) : value.chars[k] = "+"
    THEN <<"Normal Interest", "green">>
    ELSE LET numeric_value ==
                 IF value.kind = "str" THEN PyFloat(value.chars) ELSE <<value.f>>
         IN  IF numeric_value = <<>> THEN <<"Normal Interest", "green">>
             ELSE IF FLe(numeric_value[1], FromInt(10))
             THEN <<"Market Euphoria", "red">>
             ELSE IF FLe(numeric_value[1], FromInt(50))
             THEN <<"Growing Interest", "yellow">>
             ELSE <<"Normal Interest", "green">>

\* lines 62-134: the status and the colour
get_indicator_status(name, value, thresholds) ==
    IF value.kind = "none" THEN <<"Unknown", "gray">>
    ELSE IF name = "MAG7 vs BTC"
    THEN LET ma150 == thresholds[1]
             ma200 == thresholds[2]
         IN  IF ma150.kind = "none" \/ ma200.kind = "none"
             THEN <<"Unknown", "gray">>
             ELSE IF FGt(value.f, ma150.f) THEN <<"Bullish", "green">>
             ELSE IF FLt(value.f, ma200.f) THEN <<"Bearish", "red">>
             ELSE <<"Neutral", "yellow">>
    ELSE IF name = "Pi Cycle"
    THEN IF FGt(value.f, Rat(98, 100)) THEN <<"Top Signal", "red">>
         ELSE IF FLt(value.f, Rat(8, 10)) THEN <<"Normal", "green">>
         ELSE <<"Warning", "yellow">>
    ELSE IF name = "Coinbase Rank"
    THEN RankStatus(value)
    ELSE IF name = "CBBI Score"
    THEN LET high_threshold == thresholds[1]
             low_threshold == thresholds[2]
         IN  IF FGt(value.f, high_threshold.f) THEN <<"Extreme Greed", "red">>
             ELSE IF FLt(value.f, low_threshold.f) THEN <<"Fear", "green">>
             ELSE <<"Greed", "yellow">>
    ELSE IF name = "Halving Cycle"
    THEN IF FGt(value.f, Rat(8, 10)) THEN <<"Late Cycle", "red">>
         ELSE IF FGt(value.f, Rat(5, 10)) THEN <<"Mid Cycle", "yellow">>
         ELSE <<"Early Cycle", "green">>
    ELSE <<"Unknown", "gray">>

\* list.count(x)
Count(list, x) == Cardinality({k \in 1..Len(list) : list[k] = x})

\* lines 312-315
Tally(list) ==
    [bullish |-> Count(list, "Bullish") + Count(list, "Normal")
                   + Count(list, "Accumulation") + Count(list, "Early Cycle"),
     neutral |-> Count(list, "Neutral") + Count(list, "Warning")
                   + Count(list, "Growing Interest") + Count(list, "Caution")
                   + Count(list, "Mid Cycle"),
     bearish |-> Count(list, "Bearish") + Count(list, "Top Signal")
                   + Count(list, "Market Euphoria") + Count(list, "Near Top")
                   + Count(list, "Late Cycle")]

\* variant of the code: the two bearish tests in the other order
MarketSummarySwapped(bullish_count, bearish_count) ==
    IF bearish_count >= 2 THEN "warning"
    ELSE IF bearish_count >= 3 THEN "error"
    ELSE IF bullish_count >= 3 THEN "success"
    ELSE "info"

\* lines 327-335: st.error / st.warning / st.success / st.info
MarketSummary(bullish_count, bearish_count) ==
    IF bearish_count >= 3 THEN "error"
    ELSE IF bearish_count >= 2 THEN "warning"
    ELSE IF bullish_count >= 3 THEN "success"
    ELSE "info"

\* percentage = days_since / 520 if days_since is not None else None
HalvingPercentage(days_since) ==
    IF days_since.kind = "none" THEN PyNone
    ELSE Num(FDiv(days_since.f, FromInt(520)))

\* lines 152-267: the status shown for each indicator
DisplayStatuses(dt) ==
    [mag7_btc |->
        IF dt.mag7_btc = <<>> THEN ""
        ELSE get_indicator_status("MAG7 vs BTC", Get(dt.mag7_btc[1], "current_value"),
                 <<Get(dt.mag7_btc[1], "current_ma150"),
                   Get(dt.mag7_btc[1], "current_ma200")>>)[1],
     pi_cycle |->
        IF dt.pi_cycle = <<>> THEN ""
        ELSE get_indicator_status("Pi Cycle", Get(dt.pi_cycle[1], "ratio"),
                 <<Num(Rat(95, 100)), Num(Rat(8, 10))>>)[1],
     coinbase_rank |->
        IF dt.coinbase_rank = <<>> THEN ""
        ELSE get_indicator_status("Coinbase Rank", Get(dt.coinbase_rank[1], "rank"),
                 <<PyInt(5), PyInt(50)>>)[1],
     cbbi |->
        IF dt.cbbi = <<>> THEN ""
        ELSE LET score == Get(dt.cbbi[1], "score")
             IN  IF score.kind # "none" /\ FGt(score.f, FromInt(1))
                 THEN get_indicator_status("CBBI Score", score, <<PyInt(80), PyInt(50)>>)[1]
                 ELSE get_indicator_status("CBBI Score", score,
                          <<Num(Rat(8, 10)), Num(Rat(5, 10))>>)[1],
     halving |->
        IF dt.halving = <<>> THEN ""
        ELSE get_indicator_status("Halving Cycle",
                 HalvingPercentage(Get(dt.halving[1], "days_since_halving")),
                 <<Num(Rat(8, 10)), Num(Rat(5, 10))>>)[1]]

\* lines 277-310: the statuses the tally collects, in order
CollectIndicators(dt) ==
    (IF dt.mag7_btc = <<>> THEN <<>>
     ELSE <<get_indicator_status("MAG7 vs BTC", Get(dt.mag7_btc[1], "current_value"),
                <<Get(dt.mag7_btc[1], "current_ma100"),
                  Get(dt.mag7_btc[1], "current_ma200")>>)[1]>>)
    \o (IF dt.pi_cycle = <<>> THEN <<>>
        ELSE <<get_indicator_status("Pi Cycle", Get(dt.pi_cycle[1], "ratio"),
                   <<Num(Rat(95, 100)), Num(Rat(8, 10))>>)[1]>>)
    \o (IF dt.coinbase_rank = <<>> THEN <<>>
        ELSE <<get_indicator_status("Coinbase Rank", Get(dt.coinbase_rank[1], "rank"),
                   <<PyInt(5), PyInt(50)>>)[1]>>)
    \o (IF dt.cbbi = <<>> THEN <<>>
        ELSE <<get_indicator_status("CBBI Score", Get(dt.cbbi[1], "score"),
                   <<Num(Rat(8, 10)), Num(Rat(5, 10))>>)[1]>>)
    \o (IF dt.halving = <<>> THEN <<>>
        ELSE <<get_indicator_status("Halving Cycle",
                   HalvingPercentage(Get(dt.halving[1], "days_since_halving")),
                   <<Num(Rat(8, 10)), Num(Rat(5, 10))>>)[1]>>)

\* ---- what get_latest_data can hand to the page
\* get_mag7_btc_data 97-99: all None for an empty frame; else the latest
\* smoothed value with each average NaN while the history is shorter than
\* its window
Mag7Dicts ==
    {[current_value |-> PyNone, current_ma150 |-> PyNone, current_ma200 |-> PyNone]}
    \cup {[current_value |-> PyInt(100), current_ma150 |-> Num(a), current_ma200 |-> Num(b)] :
            a \in {NaN, FromInt(90), FromInt(110)}, b \in {NaN}}
    \cup {[current_value |-> PyInt(100), current_ma150 |-> PyInt(a), current_ma200 |-> PyInt(b)] :
            a \in {90, 110}, b \in {90, 110}}
\* get_pi_cycle_data 68
PiDicts ==
    {[ratio |-> r] : r \in {PyNone, Num(Rat(5, 10)), Num(Rat(9, 10)), Num(Rat(99, 100))}}
\* get_coinbase_ranking 122-129, fetch_coinbase_rank_row 16-25 and rows read
\* back from the database: an int, the "200+" / 9999 sentinels, a string
RankDicts ==
    {[rank |-> r] :
        r \in {PyNone, PyInt(5), PyInt(10), PyInt(11), PyInt(50), PyInt(51), PyInt(9999),
               Str(<<"2", "0", "0", "+">>), Str(<<"5">>), Str(<<"1", "0">>),
               Str(<<"5", "0">>), Str(<<"5", "0", ".", "5">>), Str(<<"N", "/", "A">>)}}
\* get_cbbi_data 69: a fraction, or a percentage in older rows
CbbiDicts ==
    {[score |-> r] :
        r \in {PyNone, Num(Rat(3, 10)), Num(Rat(6, 10)), Num(Rat(9, 10)),
               PyInt(30), PyInt(60), PyInt(90)}}
\* get_halving_data 81
HalvingDicts ==
    {[days_since_halving |-> r] : r \in {PyNone, PyInt(100), PyInt(300), PyInt(500)}}

Maybe(S) == {<<>>} \cup {<<x>> : x \in S}

DsInit ==
    /\ ds_pc = "load"
    /\ data = <<>>
    /\ shown = <<>>
    /\ indicators = <<>>
    /\ counts = [bullish |-> 0, neutral |-> 0, bearish |-> 0]
    /\ summary = ""
    /\ IdleExcept("ds")

\* line 59: data = get_latest_data()
DsGetLatestData ==
    /\ ds_pc = "load"
    /\ \E m \in Maybe(Mag7Dicts), p \in Maybe(PiDicts), r \in Maybe(RankDicts),
          c \in Maybe(CbbiDicts), h \in Maybe(HalvingDicts) :
          data' = [mag7_btc |-> m, pi_cycle |-> p, coinbase_rank |-> r,
                   cbbi |-> c, halving |-> h]
    /\ ds_pc' = "display"
    /\ UNCHANGED <<shown, indicators, counts, summary, dsOthers>>

\* lines 149-267: the indicator grid
DsDisplay ==
    /\ ds_pc = "display"
    /\ shown' = DisplayStatuses(data)
    /\ ds_pc' = "collect"
    /\ UNCHANGED <<data, indicators, counts, summary, dsOthers>>

\* lines 277-310
DsCollect ==
    /\ ds_pc = "collect"
    /\ indicators' = CollectIndicators(data)
    /\ ds_pc' = "count"
    /\ UNCHANGED <<data, shown, counts, summary, dsOthers>>

\* lines 312-315
DsCount ==
    /\ ds_pc = "count"
    /\ counts' = Tally(indicators)
    /\ ds_pc' = "summary"
    /\ UNCHANGED <<data, shown, indicators, summary, dsOthers>>

\* lines 327-335
DsSummary ==
    /\ ds_pc = "summary"
    /\ summary' = MarketSummary(counts.bullish, counts.bearish)
    /\ ds_pc' = "done"
    /\ UNCHANGED <<data, shown, indicators, counts, dsOthers>>

DsNext == DsGetLatestData \/ DsDisplay \/ DsCollect \/ DsCount \/ DsSummary

SpecDashboard == DsInit /\ [][DsNext]_vars

(***************************************************************************)
(* Properties of the dashboard.                                            *)
(***************************************************************************)
\* the rank handed to get_indicator_status, when there is one
RankShown == data.coinbase_rank # <<>> /\ data.coinbase_rank[1].rank.kind # "none"

\* the rank as a number: the digits of a string, the "200+" sentinel above
\* every real rank
RankNumber(value) ==
    IF value.kind = "num" THEN value.f
    ELSE IF \E k \in 1..Len(value.chars) : value.chars[k] = "+" THEN FromInt(9999)
    ELSE PyFloat(value.chars)[1]

\* a positive integer, a numeric string or a sentinel
IsRankValue(value) ==
    \/ value.kind = "num" /\ ~value.f.nan
    \/ value.kind = "str" /\ (PyFloat(value.chars) # <<>>
                                \/ \E k \in 1..Len(value.chars) : value.chars[k] = "+")

\* C13: for a rank that is a positive integer, a numeric string or a
\* sentinel, the status is "Market Euphoria" iff rank <= 10, "Growing
\* Interest" iff 10 < rank <= 50 and "Normal Interest" otherwise, the
\* sentinel counting as larger than every real rank; a status always comes
\* back.
C13_RankClassification ==
    (ds_pc \in {"collect", "count", "summary", "done"} /\ RankShown
       /\ IsRankValue(data.coinbase_rank[1].rank)) =>
        LET r == RankNumber(data.coinbase_rank[1].rank)
        IN  shown.coinbase_rank =
               IF FLe(r, FromInt(10)) THEN "Market Euphoria"
               ELSE IF FLe(r, FromInt(50)) THEN "Growing Interest"
               ELSE "Normal Interest"

C13_Witness ==
    /\ ds_pc = "done"
    /\ RankShown
    /\ data.coinbase_rank[1].rank = Str(<<"5", "0">>)
    /\ shown.coinbase_rank = "Growing Interest"

\* a value the MAG7 rule needs is missing: None, or NaN for an average
\* whose window the history does not fill
Missing(value) == value.kind = "none" \/ (value.kind = "num" /\ value.f.nan)

\* C14 as stated: when the current value or a value the rule needs is
\* missing, the status shown is "Unknown".
C14_UnknownWhenMissing ==
    (ds_pc \in {"collect", "count", "summary", "done"}) =>
        /\ (data.mag7_btc # <<>> /\
              (Missing(data.mag7_btc[1].current_value)
                 \/ Missing(data.mag7_btc[1].current_ma150)
                 \/ Missing(data.mag7_btc[1].current_ma200)))
             => shown.mag7_btc = "Unknown"
        /\ (data.pi_cycle # <<>> /\ Missing(data.pi_cycle[1].ratio))
             => shown.pi_cycle = "Unknown"
        /\ (data.coinbase_rank # <<>> /\ Missing(data.coinbase_rank[1].rank))
             => shown.coinbase_rank = "Unknown"
        /\ (data.cbbi # <<>> /\ Missing(data.cbbi[1].score))
             => shown.cbbi = "Unknown"
        /\ (data.halving # <<>> /\ Missing(data.halving[1].days_since_halving))
             => shown.halving = "Unknown"

\* C15 as stated: bullish + neutral + bearish is the number of collected
\* statuses other than "Unknown".
C15_TallyCountsEveryStatus ==
    (ds_pc \in {"summary", "done"}) =>
        counts.bullish + counts.neutral + counts.bearish
            = Cardinality({k \in 1..Len(indicators) : indicators[k] # "Unknown"})

PlaceInTally(n) == Cardinality({m \in 1..n : data[Tables[m]] # <<>>})

\* C28 as stated: for each indicator with data, the status the tally has
\* collected is the status its card displays.
C28_TallyMatchesCards ==
    ds_pc \in {"count", "summary", "done"} =>
        \A n \in 1..Len(Tables) :
            data[Tables[n]] # <<>> => indicators[PlaceInTally(n)] = shown[Tables[n]]

(***************************************************************************)
(* get_mag7_btc_data, utils/mag7_btc.py: the weighted composite index.     *)
(*                                                                         *)
(* A price frame is its dates and one column per ticker.                   *)
(***************************************************************************)
\* lines 61-69: TSLA has no weight
weights ==
    [t \in TickerSet \ {"TSLA"} |->
        IF t = "BTC-USD" THEN Rat(5, 10)
        ELSE IF t \in {"META", "NVDA"} THEN Rat(5, 100)
        ELSE Rat(1, 10)]

MgDays == 3        \* rows of the downloaded frame

\* the row numbers of a set, in order
RECURSIVE Ascending(_)
Ascending(S) ==
    IF S = {} THEN <<>> ELSE Append(Ascending(S \ {SetMax(S)}), SetMax(S))

TakeRows(frame, rows) ==
    [dates |-> [k \in 1..Len(rows) |-> frame.dates[rows[k]]],
     cols |-> [t \in TickerSet |-> [k \in 1..Len(rows) |-> frame.cols[t][rows[k]]]]]

\* line 48: data.dropna(how='all')
DropAllNaRows(frame) ==
    LET keep == {k \in 1..Len(frame.dates) : \E t \in TickerSet : ~frame.cols[t][k].nan}
    IN  TakeRows(frame, Ascending(keep))

\* line 51: the first date on which BTC-USD and TSLA both have a price;
\* <<>> (NaT) when there is none
ValidStartDate(frame) ==
    LET both == {k \in 1..Len(frame.dates) :
                    ~frame.cols["BTC-USD"][k].nan /\ ~frame.cols["TSLA"][k].nan}
    IN  IF both = {} THEN <<>> ELSE <<frame.dates[SetMin(both)]>>

\* line 52: data[data.index >= valid_start_date]; nothing compares >= NaT
FromValidStart(frame) ==
    LET start == ValidStartDate(frame)
        keep == {k \in 1..Len(frame.dates) : start # <<>> /\ frame.dates[k] >= start[1]}
    IN  TakeRows(frame, Ascending(keep))

\* line 55: ffill of one column
RECURSIVE FfillTo(_, _)
FfillTo(col, k) ==
    IF k = 0 THEN <<>>
    ELSE LET prev == FfillTo(col, k - 1)
         IN  Append(prev, IF col[k].nan /\ k > 1 THEN prev[k - 1] ELSE col[k])

Ffill(frame) ==
    [dates |-> frame.dates,
     cols |-> [t \in TickerSet |-> FfillTo(frame.cols[t], Len(frame.dates))]]

\* line 58: data / data.iloc[0] * 100
Normalize(frame) ==
    [dates |-> frame.dates,
     cols |-> [t \in TickerSet |->
                 [k \in 1..Len(frame.dates) |->
                    FMul(FDiv(frame.cols[t][k], frame.cols[t][1]), FromInt(100))]]]

\* (normalized_data * pd.Series(weights)): a column without a weight is NaN
Weighted(normalized, t, k) ==
    IF t \in DOMAIN weights THEN FMul(normalized.cols[t][k], weights[t]) ELSE NaN

\* .sum(axis=1): NaN cells are skipped
RECURSIVE RowSum(_, _, _)
RowSum(normalized, k, j) ==
    IF j = 0 THEN FromInt(0)
    ELSE FAdd(RowSum(normalized, k, j - 1),
              FillNa(Weighted(normalized, tickers[j], k), FromInt(0)))

\* line 73: BTC_Mag7_Index
IndexCol(normalized) ==
    [k \in 1..Len(normalized.dates) |-> RowSum(normalized, k, Len(tickers))]

\* ---- the frames yf.download can return
MgPrices == {1, 2}
MgFull == [k \in 1..MgDays |-> FromInt(IF k = 1 THEN 1 ELSE 2)]
MgLate == [k \in 1..MgDays |-> IF k = 1 THEN NaN ELSE FromInt(k)]
MgNone == [k \in 1..MgDays |-> NaN]
MgFlat == [k \in 1..MgDays |-> FromInt(2)]
\* BTC-USD: any mix of prices and gaps
MgBtcCols == [1..MgDays -> {NaN} \cup {FromInt(p) : p \in MgPrices}]
\* TSLA, MSFT, META: a full history, one that starts a row late, none
MgStockCols == {MgFull, MgLate, MgNone}

MgFrames ==
    {[dates |-> [k \in 1..MgDays |-> k],
      cols |-> [t \in TickerSet |->
                  IF t = "BTC-USD" THEN btc
                  ELSE IF t = "TSLA" THEN tsla
                  ELSE IF t = "MSFT" THEN msft
                  ELSE IF t = "META" THEN meta
                  ELSE IF t = "AAPL" THEN aapl
                  ELSE MgFlat]] :
        btc \in MgBtcCols, tsla \in MgStockCols, msft \in MgStockCols,
        meta \in MgStockCols, aapl \in {MgFull, MgFlat}}

MgInit ==
    /\ mg_pc = "fetch"
    /\ mg_data = MgNoFrame
    /\ index_data = <<>>
    /\ mg_response = <<>>
    /\ IdleExcept("mg")

\* lines 40-45
MgFetch ==
    /\ mg_pc = "fetch"
    /\ mg_data' \in MgFrames
    /\ mg_pc' = "align"
    /\ UNCHANGED <<index_data, mg_response, mgOthers>>

\* lines 47-55
MgAlign ==
    /\ mg_pc = "align"
    /\ mg_data' = Ffill(FromValidStart(DropAllNaRows(mg_data)))
    /\ mg_pc' = "index"
    /\ UNCHANGED <<index_data, mg_response, mgOthers>>

\* lines 57-73 on a frame with rows
MgIndex ==
    /\ mg_pc = "index"
    /\ mg_data.dates # <<>>
    /\ index_data' = IndexCol(Normalize(mg_data))
    /\ mg_pc' = "done"
    /\ mg_response' = <<"response">>
    /\ UNCHANGED <<mg_data, mgOthers>>

\* line 58 on an empty frame: data.iloc[0] raises, lines 131-133 return None
MgRaises ==
    /\ mg_pc = "index"
    /\ mg_data.dates = <<>>
    /\ mg_pc' = "done"
    /\ mg_response' = <<>>
    /\ UNCHANGED <<mg_data, index_data, mgOthers>>

MgNext == MgFetch \/ MgAlign \/ MgIndex \/ MgRaises

SpecMag7 == MgInit /\ [][MgNext]_vars

(***************************************************************************)
(* Properties of get_mag7_btc_data.                                        *)
(***************************************************************************)
\* C17 as stated: the raw composite index of the first retained row is
\* exactly 100, also when a weighted ticker has no price on that row.
C17_IndexStartsAt100 ==
    (mg_pc = "done" /\ mg_response # <<>>) => index_data[1] = FromInt(100)

(***************************************************************************)
(* update_database as a state machine.                                     *)
(***************************************************************************)
UdStart ==
    /\ ud_pc = "begin"
    /\ db \in UdInitialDbs
    /\ db_at_begin = db
    /\ tx = NoRows
    /\ ud_cycle = 0
    /\ ud_payload = 0
    /\ ud_date = 1
    /\ ud_k = 1
    /\ ud_outcome = NoOutcome
    /\ ud_result = "none"
    /\ ud_trigger = "none"
    /\ sidebar = ""

UdInit == UdStart /\ IdleExcept("ud")

\* lines 84-93: connect, current_date; a later call runs on the same date
\* or on the next one.  The caller is the 'Update All Data' button, whose
\* rerun of the script has cleared the sidebar, or a job of the scheduler.
BeginCall(calls, callers) ==
    /\ \/ ud_pc \in {"begin", "shown"}
       \/ ud_pc = "returned" /\ ud_trigger = "job"
    /\ ud_cycle < calls
    /\ ud_trigger' \in callers
    /\ sidebar' = ""
    /\ ud_cycle' = ud_cycle + 1
    /\ ud_payload' \in (IF ud_cycle = 0 THEN {1} ELSE UdPayloads)
    /\ \E later \in {0, 1} : ud_date' = ud_date + (IF ud_cycle = 0 THEN 0 ELSE later)
    /\ db_at_begin' = db
    /\ tx' = NoRows
    /\ ud_k' = 1
    /\ ud_outcome' = NoOutcome
    /\ ud_result' = "none"
    /\ ud_pc' = "update"
    /\ UNCHANGED <<db, udOthers>>

UdBegin == BeginCall(UdCycles, UdCallers)

\* the fetcher returns None (it caught its own failure): the if is skipped
UdFetchNone ==
    /\ ud_pc = "update"
    /\ ud_k <= Len(Tables)
    /\ ud_outcome' = [ud_outcome EXCEPT ![Tables[ud_k]] = "none"]
    /\ ud_k' = ud_k + 1
    /\ UNCHANGED <<ud_pc, db, db_at_begin, tx, ud_cycle, ud_date, ud_result, udUi, udOthers>>

\* variant of the code: a connection in autocommit mode, each INSERT is
\* committed as it is executed
UdStoreAutocommit ==
    /\ ud_pc = "update"
    /\ ud_k <= Len(Tables)
    /\ LET t == Tables[ud_k]
       IN  /\ db' = [db EXCEPT ![t] = InsertOrReplace(db[t], <<>>, ud_date, ud_payload)]
           /\ ud_outcome' = [ud_outcome EXCEPT ![t] = "stored"]
    /\ ud_k' = ud_k + 1
    /\ UNCHANGED <<ud_pc, tx, db_at_begin, ud_cycle, ud_date, ud_result, udUi, udOthers>>

\* the fetcher returns data, json.dumps and cursor.execute succeed
UdStore ==
    /\ ud_pc = "update"
    /\ ud_k <= Len(Tables)
    /\ LET t == Tables[ud_k]
       IN  /\ tx' = [tx EXCEPT ![t] = InsertOrReplace(db[t], tx[t], ud_date, ud_payload)]
           /\ ud_outcome' = [ud_outcome EXCEPT ![t] = "stored"]
    /\ ud_k' = ud_k + 1
    /\ UNCHANGED <<ud_pc, db, db_at_begin, ud_cycle, ud_date, ud_result, udUi, udOthers>>

\* json.dumps or cursor.execute raises: lines 139-141 log and return False;
\* nothing was committed and the connection is dropped
UdRaises ==
    /\ ud_pc = "update"
    /\ ud_k <= Len(Tables)
    /\ ud_outcome' = [ud_outcome EXCEPT ![Tables[ud_k]] = "raised"]
    /\ tx' = NoRows
    /\ ud_result' = "False"
    /\ ud_pc' = "returned"
    /\ UNCHANGED <<db, db_at_begin, ud_cycle, ud_date, ud_k, udUi, udOthers>>

\* lines 135-138: commit, close, return True
UdCommit ==
    /\ ud_pc = "update"
    /\ ud_k = Len(Tables) + 1
    /\ db' = [t \in TableSet |-> db[t] \o tx[t]]
    /\ tx' = NoRows
    /\ ud_result' = "True"
    /\ ud_pc' = "returned"
    /\ UNCHANGED <<db_at_begin, ud_cycle, ud_date, ud_k, ud_outcome, udUi, udOthers>>

\* app.py 53-56: the with block is left whatever update_database returned,
\* its value is dropped, and line 56 shows the success message
UdSidebarSuccess ==
    /\ ud_pc = "returned"
    /\ ud_trigger = "button"
    /\ sidebar' = "success"
    /\ ud_pc' = "shown"
    /\ UNCHANGED <<db, db_at_begin, tx, ud_cycle, ud_payload, ud_date, ud_k, ud_outcome,
                   ud_result, ud_trigger, udOthers>>

UdNext == UdBegin \/ UdFetchNone \/ UdStore \/ UdRaises \/ UdCommit \/ UdSidebarSuccess

SpecUpdate == UdInit /\ [][UdNext]_vars

(***************************************************************************)
(* get_latest_data as a state machine, next to update_database.  The       *)
(* database file exists (line 203); each SELECT is a statement of its own  *)
(* and sees the rows committed when it runs.                               *)
(***************************************************************************)
RdInit ==
    /\ UdStart
    /\ rd_pc = "ready"
    /\ rd_k = 1
    /\ rd_data = NoData
    /\ rd_pending = {}
    /\ IdleExcept("rd")

\* lines 208-212: connect, data = {}
RdConnect ==
    /\ rd_pc = "ready"
    /\ rd_pc' = "select"
    /\ UNCHANGED <<rd_k, rd_data, rd_pending, rdOthers>>

\* the data entry of a row that was read, and of a value the reader got from
\* the indicator's source instead of the table
FromRow(row) == [src |-> "db", id |-> row.id, date |-> row.date, data |-> row.data]
Fetched == [src |-> "fetch", id |-> 0, date |-> 0, data |-> 0]

\* SELECT data FROM t ORDER BY id DESC LIMIT 1 and fetchone, with a result:
\* json.loads of the row's data
RdSelectRow ==
    /\ rd_pc = "select"
    /\ rd_k <= Len(Tables)
    /\ LET t == Tables[rd_k]
       IN  /\ LatestRow(db[t]) # <<>>
           /\ rd_data' = [rd_data EXCEPT ![t] = <<FromRow(LatestRow(db[t])[1])>>]
           /\ rd_pending' = IF tx[t] # <<>> THEN rd_pending \cup {t} ELSE rd_pending
    /\ rd_k' = rd_k + 1
    /\ UNCHANGED <<rd_pc, rdOthers>>

\* fetchone gives None, the table has no committed row: the else branch
\* calls the indicator's fetcher
RdSelectEmpty ==
    /\ rd_pc = "select"
    /\ rd_k <= Len(Tables)
    /\ LET t == Tables[rd_k]
       IN  /\ LatestRow(db[t]) = <<>>
           /\ rd_data' = [rd_data EXCEPT ![t] = <<Fetched>>]
           /\ rd_pending' = IF tx[t] # <<>> THEN rd_pending \cup {t} ELSE rd_pending
    /\ rd_k' = rd_k + 1
    /\ UNCHANGED <<rd_pc, rdOthers>>

\* lines 259-261: close, return data
RdReturn ==
    /\ rd_pc = "select"
    /\ rd_k = Len(Tables) + 1
    /\ rd_pc' = "returned"
    /\ UNCHANGED <<rd_k, rd_data, rd_pending, rdOthers>>

\* update_database called by a job of the scheduler, in its worker thread
RdRefreshBegins == BeginCall(RdCycles, {"job"})

RdNext ==
    \/ RdRefreshBegins \/ UdFetchNone \/ UdStore \/ UdRaises \/ UdCommit
    \/ RdConnect \/ RdSelectRow \/ RdSelectEmpty \/ RdReturn

SpecReader == RdInit /\ [][RdNext]_vars

(***************************************************************************)
(* Properties of update_database.                                          *)
(***************************************************************************)
\* the indicator whose update failed in the call that has returned
FailedIn(t) == ud_pc = "returned" /\ ud_outcome[t] \in {"none", "raised"}

\* the call has persisted what it fetched for indicator t
PersistedThisCycle(t) ==
    /\ LatestRow(db[t]) # <<>>
    /\ LatestRow(db[t])[1].id >= NextId(db_at_begin[t])
    /\ LatestRow(db[t])[1].data = ud_payload
    /\ LatestRow(db[t])[1].date = ud_date

\* C18 as stated: when one indicator's update fails in a cycle, every other
\* indicator has still been fetched in that cycle, what was fetched for it
\* is persisted, and the failed indicator's last persisted value is as it
\* was before the cycle.
C18_RefreshIsolation ==
    \A t \in TableSet :
        FailedIn(t) =>
            /\ LatestRow(db[t]) = LatestRow(db_at_begin[t])
            /\ \A u \in TableSet \ {t} :
                  /\ ud_outcome[u] # "pending"
                  /\ ud_outcome[u] = "stored" => PersistedThisCycle(u)

\* an indicator of the call that has returned could not be fetched
NotFetched(t) == ud_outcome[t] = "none"

\* C21 as stated: the sidebar shows the success message after the button's
\* call only if update_database returned True and every indicator was
\* fetched.
C21_SuccessOnlyAfterSuccess ==
    sidebar = "success" =>
        /\ ud_result = "True"
        /\ \A t \in TableSet : ~NotFetched(t)

\* the rows of a table that carry a date
RowsOn(rows, date) == {k \in 1..Len(rows) : rows[k].date = date}

\* the call that has returned ran on a date, and with a payload, that the
\* latest row of table t already carried when the call began
RepeatedFor(t) ==
    /\ ud_pc = "returned"
    /\ ud_result = "True"
    /\ ud_outcome[t] = "stored"
    /\ LatestRow(db_at_begin[t]) # <<>>
    /\ LatestRow(db_at_begin[t])[1].date = ud_date
    /\ LatestRow(db_at_begin[t])[1].data = ud_payload

\* C25 as stated: a call that repeats the date and the payload of the call
\* before it leaves the table as that call left it, and no table ever holds
\* two rows of one date.
C25_RefreshIdempotence ==
    \A t \in TableSet :
        /\ RepeatedFor(t) => db[t] = db_at_begin[t]
        /\ \A k \in 1..Len(db[t]) : Cardinality(RowsOn(db[t], db[t][k].date)) <= 1

(***************************************************************************)
(* Properties of get_latest_data next to update_database.                  *)
(***************************************************************************)
\* the step sets the reader's entry for table t
Selects(t) == rd_data[t] = <<>> /\ rd_data'[t] # <<>>

\* the entry is the payload persisted before the cycle
SeenBefore(entry, t) ==
    /\ LatestRow(db_at_begin[t]) # <<>>
    /\ entry = FromRow(LatestRow(db_at_begin[t])[1])

\* the entry is the payload the cycle wrote and committed
SeenWritten(entry, t) ==
    /\ ud_result = "True"
    /\ entry.src = "db"
    /\ entry.id >= NextId(db_at_begin[t])
    /\ entry.date = ud_date
    /\ entry.data = ud_payload

\* the table has never held a committed row and the reader fetched the
\* indicator itself
SeenFetched(entry, t) ==
    /\ LatestRow(db[t]) = <<>>
    /\ entry = Fetched

\* the committed rows change only by the commit that ends a call, which
\* adds all the rows the call inserted
CommitsTogether ==
    db' # db =>
        /\ ud_result' = "True"
        /\ \A t \in TableSet : db'[t] = db[t] \o tx[t]

ScInit ==
    /\ sc_pc = "loaded"
    /\ sc_running = FALSE
    /\ sc_jobs = {}
    /\ sc_active = [s \in Triggers |-> FALSE]
    /\ sc_runs = [s \in Triggers |-> 0]
    /\ sc_starts = 0
    /\ sc_stops = 0
    /\ IdleExcept("sc")

\* a refresh begins in the thread of trigger s
BeginRefresh(s) ==
    /\ sc_active' = [sc_active EXCEPT ![s] = TRUE]
    /\ sc_runs' = [sc_runs EXCEPT ![s] = @ + 1]

\* start_scheduler, lines 24-53, scheduler not running: both jobs are
\* added, the scheduler starts and the initial update begins
StartScheduler ==
    /\ sc_pc = "loaded"
    /\ ~sc_running
    /\ sc_runs["initial"] < ScMaxRuns
    /\ sc_jobs' = sc_jobs \cup JobIds
    /\ sc_running' = TRUE
    /\ BeginRefresh("initial")
    /\ sc_starts' = sc_starts + 1
    /\ UNCHANGED <<sc_pc, sc_stops, scOthers>>

\* variant of the code: start_scheduler without the test of line 25
StartSchedulerRunningAgain ==
    /\ sc_pc = "loaded"
    /\ sc_running
    /\ sc_starts < ScMaxStarts
    /\ sc_runs["initial"] < ScMaxRuns
    /\ sc_jobs' = sc_jobs \cup JobIds
    /\ BeginRefresh("initial")
    /\ sc_starts' = sc_starts + 1
    /\ UNCHANGED <<sc_pc, sc_running, sc_stops, scOthers>>

\* start_scheduler, lines 25 and 54-55, scheduler running: a log line only
StartSchedulerRunning ==
    /\ sc_pc = "loaded"
    /\ sc_running
    /\ sc_starts < ScMaxStarts
    /\ sc_starts' = sc_starts + 1
    /\ UNCHANGED <<sc_pc, sc_running, sc_jobs, sc_active, sc_runs, sc_stops, scOthers>>

\* the CronTrigger(hour=6, minute=0) job fires
CronFires ==
    /\ sc_running
    /\ "update_database_job" \in sc_jobs
    /\ ~sc_active["cron"]
    /\ sc_runs["cron"] < ScMaxRuns
    /\ BeginRefresh("cron")
    /\ UNCHANGED <<sc_pc, sc_running, sc_jobs, sc_starts, sc_stops, scOthers>>

\* the IntervalTrigger(hours=12) job fires
IntervalFires ==
    /\ sc_running
    /\ "backup_update_database_job" \in sc_jobs
    /\ ~sc_active["interval"]
    /\ sc_runs["interval"] < ScMaxRuns
    /\ BeginRefresh("interval")
    /\ UNCHANGED <<sc_pc, sc_running, sc_jobs, sc_starts, sc_stops, scOthers>>

\* app.py 52-55: the button is pressed in a session whose script has
\* passed start_scheduler
ManualUpdate ==
    /\ sc_running
    /\ ~sc_active["manual"]
    /\ sc_runs["manual"] < ScMaxRuns
    /\ BeginRefresh("manual")
    /\ UNCHANGED <<sc_pc, sc_running, sc_jobs, sc_starts, sc_stops, scOthers>>

\* update_database returns in the thread of trigger s
RefreshEnds ==
    /\ \E s \in Triggers :
          /\ sc_active[s]
          /\ sc_active' = [sc_active EXCEPT ![s] = FALSE]
    /\ UNCHANGED <<sc_pc, sc_running, sc_jobs, sc_runs, sc_starts, sc_stops, scOthers>>

\* stop_scheduler, lines 59-65: shutdown waits for the running jobs
StopScheduler ==
    /\ sc_running
    /\ ~sc_active["cron"] /\ ~sc_active["interval"]
    /\ sc_running' = FALSE
    /\ sc_jobs' = {}
    /\ sc_starts' = 0
    /\ sc_stops < ScMaxStops
    /\ sc_stops' = sc_stops + 1
    /\ UNCHANGED <<sc_pc, sc_active, sc_runs, scOthers>>

\* stop_scheduler, line 63, scheduler not running: the if is skipped
StopSchedulerNotRunning ==
    /\ sc_pc = "loaded"
    /\ ~sc_running
    /\ sc_stops < ScMaxStops
    /\ sc_stops' = sc_stops + 1
    /\ UNCHANGED <<sc_pc, sc_running, sc_jobs, sc_active, sc_runs, sc_starts, scOthers>>

ScNext ==
    StartScheduler \/ StartSchedulerRunning \/ CronFires \/ IntervalFires \/ ManualUpdate
        \/ RefreshEnds \/ StopScheduler \/ StopSchedulerNotRunning

SpecScheduler == ScInit /\ [][ScNext]_vars

(***************************************************************************)
(* Properties of the scheduler.                                            *)
(***************************************************************************)
\* C19 as stated: at no time are two refreshes running.
C19_NoConcurrentRefresh ==
    Cardinality({s \in Triggers : sc_active[s]}) <= 1

\* the step is a call of start_scheduler
StartCall == sc_starts' = sc_starts + 1

\* the step begins the initial update
InitialUpdateBegins == sc_runs'["initial"] = sc_runs["initial"] + 1

\* the step is a call of stop_scheduler on a scheduler that is not running
StopCallNotRunning == ~sc_running /\ sc_stops' = sc_stops + 1

\* C30: every start_scheduler call leaves exactly the two jobs registered,
\* the initial update begins in the first call since the scheduler last
\* stopped and in no later one, and stop_scheduler on a scheduler that is not
\* running changes nothing.
C30_StartIdempotent ==
    [][/\ StartCall =>
            /\ sc_running'
            /\ sc_jobs' = JobIds
            /\ InitialUpdateBegins <=> sc_starts = 0
       /\ StopCallNotRunning =>
            UNCHANGED <<sc_running, sc_jobs, sc_active, sc_runs, sc_starts>>]_vars

\* start_scheduler has been called again on the running scheduler, which
\* had been stopped and started before
C30_Witness ==
    /\ sc_starts >= 2
    /\ sc_stops >= 1
    /\ sc_jobs = JobIds
    /\ sc_runs["initial"] = 2

(***************************************************************************)
(* scrape_official_cbbi_score as a state machine.                          *)
(*                                                                         *)
(* A response is whether requests.get raised, the status code and the      *)
(* body: for the page, the text of the h1.confidence-score-value element   *)
(* (body "element") or no such element; for the API, the Confidence scores *)
(* in the order of their sorted timestamps (body "confidence"), a document *)
(* without the key (body "nokey") or one that is not JSON (body "invalid").*)
(***************************************************************************)
\* line 213 and line 217
FALLBACK_SCORE == Rat(76, 100)

CbRaised == [raises |-> TRUE, status |-> 0, body |-> "none", text |-> <<>>, scores |-> <<>>]

CbHtmlResponses ==
    {CbRaised, [CbNoResponse EXCEPT !.status = 500],
     [CbNoResponse EXCEPT !.status = 200, !.body = "noelement"]}
    \cup {[CbNoResponse EXCEPT !.status = 200, !.body = "element", !.text = t] :
            t \in {<<"-", "-">>, <<"7", "6">>, <<"5">>, <<"n", "/", "a">>, <<" ", "4", "2", " ">>}}

CbScoreValues == {Num(Rat(5, 10)), Num(Rat(745, 1000)), Str(<<"x">>)}

CbApiResponses ==
    {CbRaised, [CbNoResponse EXCEPT !.status = 500],
     [CbNoResponse EXCEPT !.status = 200, !.body = "invalid"],
     [CbNoResponse EXCEPT !.status = 200, !.body = "nokey"],
     [CbNoResponse EXCEPT !.status = 200, !.body = "confidence"]}
    \cup {[CbNoResponse EXCEPT !.status = 200, !.body = "confidence", !.scores = <<a>>] :
            a \in CbScoreValues}
    \cup {[CbNoResponse EXCEPT !.status = 200, !.body = "confidence", !.scores = <<a, b>>] :
            a \in CbScoreValues, b \in CbScoreValues}

\* str.strip() of ' '
RECURSIVE Strip(_)
Strip(cs) ==
    IF cs = <<>> THEN cs
    ELSE IF Head(cs) = " " THEN Strip(Tail(cs))
    ELSE IF cs[Len(cs)] = " " THEN Strip(SubSeq(cs, 1, Len(cs) - 1))
    ELSE cs

\* ''.join(c for c in text if c.isdigit())
RECURSIVE OnlyDigits(_)
OnlyDigits(cs) ==
    IF cs = <<>> THEN <<>>
    ELSE (IF IsDigit(Head(cs)) THEN <<Head(cs)>> ELSE <<>>) \o OnlyDigits(Tail(cs))

\* lines 153-170: <<score>> when the page gives one, <<>> to go on to the API
ScoreFromHtml(r) ==
    IF r.status = 200 /\ r.body = "element" /\ Strip(r.text) # <<"-", "-">>
       /\ OnlyDigits(r.text) # <<>>
    THEN <<Rat(DigitsValue(OnlyDigits(r.text), Len(OnlyDigits(r.text))), 100)>>
    ELSE <<>>

\* lines 178-209: <<score>> when the API gives one, <<>> when it does not
ScoreFromApi(r) ==
    IF r.status = 200 /\ r.body = "confidence" /\ r.scores # <<>>
    THEN LET latest == r.scores[Len(r.scores)]
             score == IF latest.kind = "str" THEN PyFloat(latest.chars) ELSE <<latest.f>>
         IN  IF score = <<>> THEN <<>>
             ELSE IF FLe(Rat(74, 100), score[1]) /\ FLt(score[1], Rat(75, 100))
             THEN <<FALLBACK_SCORE>>
             ELSE score
    ELSE <<>>

CbInit ==
    /\ cb_pc = "html"
    /\ cb_html = CbNoResponse
    /\ cb_api = CbNoResponse
    /\ cb_score = <<>>
    /\ cb_stored = <<>>
    /\ IdleExcept("cb")

\* lines 151-166: the page is requested and gives a score
CbHtmlScore ==
    /\ cb_pc = "html"
    /\ \E r \in CbHtmlResponses :
          /\ ~r.raises
          /\ ScoreFromHtml(r) # <<>>
          /\ cb_html' = r
          /\ cb_score' = ScoreFromHtml(r)
    /\ cb_pc' = "returned"
    /\ UNCHANGED <<cb_api, cb_stored, cbOthers>>

\* lines 151-170: the page is requested and gives no score
CbHtmlNoScore ==
    /\ cb_pc = "html"
    /\ \E r \in CbHtmlResponses :
          /\ ~r.raises
          /\ ScoreFromHtml(r) = <<>>
          /\ cb_html' = r
    /\ cb_pc' = "api"
    /\ UNCHANGED <<cb_api, cb_score, cb_stored, cbOthers>>

\* lines 176-201: the API is requested and gives a score
CbApiScore ==
    /\ cb_pc = "api"
    /\ \E r \in CbApiResponses :
          /\ ~r.raises
          /\ ScoreFromApi(r) # <<>>
          /\ cb_api' = r
          /\ cb_score' = ScoreFromApi(r)
    /\ cb_pc' = "returned"
    /\ UNCHANGED <<cb_html, cb_stored, cbOthers>>

\* lines 176-213: the API gives no score, the hard-coded value is returned
CbApiNoScore ==
    /\ cb_pc = "api"
    /\ \E r \in CbApiResponses :
          /\ ~r.raises
          /\ ScoreFromApi(r) = <<>>
          /\ cb_api' = r
    /\ cb_score' = <<FALLBACK_SCORE>>
    /\ cb_pc' = "returned"
    /\ UNCHANGED <<cb_html, cb_stored, cbOthers>>

\* lines 215-217: a request raises, the hard-coded value is returned
CbRequestRaises ==
    /\ \/ cb_pc = "html" /\ cb_html' = CbRaised /\ UNCHANGED cb_api
       \/ cb_pc = "api" /\ cb_api' = CbRaised /\ UNCHANGED cb_html
    /\ cb_score' = <<FALLBACK_SCORE>>
    /\ cb_pc' = "returned"
    /\ UNCHANGED <<cb_stored, cbOthers>>

\* scheduled_update_cbbi_score, scheduler.py 98-139: a score that is not
\* None is written to daily_cbbi_scores, None skips the update
CbStoreScore ==
    /\ cb_pc = "returned"
    /\ cb_stored' = IF cb_score = <<>> THEN cb_stored
                    ELSE IF FGt(cb_score[1], FromInt(1))
                    THEN <<FDiv(cb_score[1], FromInt(100))>>
                    ELSE cb_score
    /\ cb_pc' = "done"
    /\ UNCHANGED <<cb_html, cb_api, cb_score, cbOthers>>

CbNext ==
    CbHtmlScore \/ CbHtmlNoScore \/ CbApiScore \/ CbApiNoScore \/ CbRequestRaises
        \/ CbStoreScore

SpecCbbi == CbInit /\ [][CbNext]_vars

(***************************************************************************)
(* Properties of scrape_official_cbbi_score.                               *)
(***************************************************************************)
\* a live source gave the score that was returned
LiveReading ==
    \/ ~cb_html.raises /\ ScoreFromHtml(cb_html) # <<>>
    \/ ~cb_api.raises /\ ScoreFromApi(cb_api) # <<>>

\* C20 as stated: a score is returned only when the page or the API gave
\* one, and None is returned when every live fetch failed.
C20_NoFallbackAsLiveReading ==
    (cb_pc \in {"returned", "done"}) =>
        /\ cb_score # <<>> => LiveReading
        /\ ~LiveReading => cb_score = <<>>

(***************************************************************************)
(* The halving windows of the backtest page, 06_ScaleSignals_Backtest.py   *)
(* lines 67-82, for one row of df.index.                                   *)
(***************************************************************************)
\* line 68
halvings == << Date(2012, 11, 28), Date(2016, 7, 9), Date(2020, 5, 11), Date(2024, 4, 19) >>

\* line 72: the length of month mo of year y
DaysInMonth(y, mo) ==
    IF mo = 2
    THEN (IF y % 4 = 0 /\ (y % 100 # 0 \/ y % 400 = 0) THEN 29 ELSE 28)
    ELSE IF mo \in {4, 6, 9, 11} THEN 30 ELSE 31

\* lines 69-73; // and % round towards minus infinity, as \div and % do
month_delta(ts, m) ==
    LET y == ts.y + (ts.m - 1 + m) \div 12
        mo == ((ts.m - 1 + m) % 12) + 1
        d == IF ts.d < DaysInMonth(y, mo) THEN ts.d ELSE DaysInMonth(y, mo)
    IN  Date(y, mo, d)

\* lines 77-81: index >= lo and index <= hi for some halving of the table
InWindow(table, day, lo, hi) ==
    \E k \in 1..Len(table) :
        /\ day >= Strptime(month_delta(table[k], lo)).day
        /\ day <= Strptime(month_delta(table[k], hi)).day

HwSlack == 2       \* days drawn on each side of the edge of a window

\* the dates of the row: around every edge of every window of either table
HwDays ==
    { Strptime(month_delta(h, m)).day + o :
        h \in {halvings[k] : k \in 1..Len(halvings)}
                \cup {halving_dates[k] : k \in 1..Len(halving_dates)},
        m \in {-18, -12, 12, 18},
        o \in (0 - HwSlack)..HwSlack }

HwInit ==
    /\ hw_pc = "index"
    /\ hw_day = 0
    /\ hin = FALSE
    /\ hout = FALSE
    /\ IdleExcept("hw")

\* a row of df.index, line 47
HwIndex ==
    /\ hw_pc = "index"
    /\ hw_day' \in HwDays
    /\ hw_pc' = "windows"
    /\ UNCHANGED <<hin, hout, hwOthers>>

\* lines 75-82
HwWindows ==
    /\ hw_pc = "windows"
    /\ hin' = InWindow(halvings, hw_day, -18, -12)
    /\ hout' = InWindow(halvings, hw_day, 12, 18)
    /\ hw_pc' = "done"
    /\ UNCHANGED <<hw_day, hwOthers>>

HwNext == HwIndex \/ HwWindows

SpecWindows == HwInit /\ [][HwNext]_vars

\* C23 as stated: the accumulation window is open on a day iff the day lies
\* from 18 to 12 months before a halving of the tracker's table, and the
\* distribution window iff it lies from 12 to 18 months after one.
C23_WindowsOfTheHalvingTable ==
    hw_pc = "done" =>
        /\ hin <=> InWindow(halving_dates, hw_day, -18, -12)
        /\ hout <=> InWindow(halving_dates, hw_day, 12, 18)

(***************************************************************************)
(* The benchmark of the backtest page, 06_ScaleSignals_Backtest.py lines   *)
(* 31-36.  A frame is one column per equity, all of the same length.       *)
(***************************************************************************)
BmDays == 3        \* rows of the downloaded frame

\* the history of an equity that begins on row s: NaN before it, then a
\* price that grows with the row
BmCol(s) == [k \in 1..BmDays |-> IF k < s THEN NaN ELSE FromInt(k + 1)]

\* the frames yf.download can return: each history begins on some row
BmFrames == {[t \in Mag7Set |-> BmCol(start[t])] : start \in [Mag7Set -> 1..BmDays]}

\* the rows of a frame
BmRows(frame) == 1..Len(frame[MAG7[1]])

\* line 34: dropna(how="all")
BmDropAllNa(frame) ==
    LET keep == Ascending({k \in BmRows(frame) : \E t \in Mag7Set : ~frame[t][k].nan})
    IN  [t \in Mag7Set |-> [j \in 1..Len(keep) |-> frame[t][keep[j]]]]

\* line 35: (mag7_prices / mag7_prices.iloc[0]).mean(axis=1)
Mag7Idx(frame) ==
    [k \in BmRows(frame) |->
        Mean([j \in 1..Len(MAG7) |-> FDiv(frame[MAG7[j]][k], frame[MAG7[j]][1])])]

BmInit ==
    /\ bm_pc = "download"
    /\ mag7_prices = [t \in Mag7Set |-> <<>>]
    /\ mag7_idx = <<>>
    /\ IdleExcept("bm")

\* line 34
BmDownload ==
    /\ bm_pc = "download"
    /\ \E frame \in BmFrames : mag7_prices' = BmDropAllNa(frame)
    /\ bm_pc' = "index"
    /\ UNCHANGED <<mag7_idx, bmOthers>>

\* line 35
BmIndex ==
    /\ bm_pc = "index"
    /\ mag7_idx' = Mag7Idx(mag7_prices)
    /\ bm_pc' = "done"
    /\ UNCHANGED <<mag7_prices, bmOthers>>

BmNext == BmDownload \/ BmIndex

SpecBenchmark == BmInit /\ [][BmNext]_vars

\* the first available price of an equity
OwnFirstPrice(t) ==
    mag7_prices[t][SetMin({k \in BmRows(mag7_prices) : ~mag7_prices[t][k].nan})]

\* C27 as stated: on every row on which all seven equities have a price,
\* the benchmark is the mean of the seven prices, each divided by the
\* equity's own first available price.
C27_EqualWeightedBasket ==
    bm_pc = "done" =>
        \A k \in BmRows(mag7_prices) :
            (\A t \in Mag7Set : ~mag7_prices[t][k].nan) =>
                mag7_idx[k] =
                    Mean([j \in 1..Len(MAG7) |->
                            FDiv(mag7_prices[MAG7[j]][k], OwnFirstPrice(MAG7[j]))])

(***************************************************************************)
(* The program as a whole: each part runs on its own.                      *)
(***************************************************************************)
Init ==
    BtInit \/ SigInit \/ PiInit \/ HvInit \/ DsInit \/ MgInit \/ UdInit \/ RdInit \/ ScInit
        \/ CbInit \/ HwInit \/ BmInit
Next ==
    BtNext \/ SigNext \/ PiNext \/ HvNext \/ DsNext \/ MgNext \/ UdNext \/ RdNext \/ ScNext
        \/ CbNext \/ HwNext \/ BmNext
Spec == Init /\ [][Next]_vars

====
